---- MODULE Spec2Model ----
(***************************************************************************)
(* The physics grading webhook server, src/agent/webhook_server.py: one     *)
(* batch handled by process_all_questions.  The model covers the fan-out of *)
(* grade_single_question tasks through an asyncio.Semaphore, the retry loop *)
(* of each task, format_question_for_agent, parse_agent_response, the       *)
(* fan-in (gather), the sort and the integrity pass, the metadata, the      *)
(* delivery loop, and the routes POST /grade and POST /grade/sync.          *)
(***************************************************************************)
EXTENDS Integers, Sequences, FiniteSets, TLC

(***************************************************************************)
(* Program constants (webhook_server.py lines 45-48)                        *)
(***************************************************************************)
MAX_PARALLEL_TASKS == 4
MAX_RETRIES == 3
RETRY_DELAY == 2
REQUEST_TIMEOUT == 120

(***************************************************************************)
(* Bounds of the model                                                      *)
(***************************************************************************)
\* Largest batch of the data specification Spec.
MaxN == 2
\* Number of questions beyond MAX_PARALLEL_TASKS in the batches of SpecGate.
MaxExtra == 1

(***************************************************************************)
(* Python values.  A dict key that is absent, and None, are the sentinels   *)
(* below; integers that are present are naturals.                           *)
(***************************************************************************)
Absent == -1
None == "<None>"

\* dict.get(key, default) on a field modelled by the Absent sentinel
Get(v, default) == IF v = Absent THEN default ELSE v

(***************************************************************************)
(* Response text: a sequence of tokens.  "{" "}" are the braces find/rfind  *)
(* look for, " " is whitespace (removed at both ends by strip), "w" is any  *)
(* other prose character, and "fld" is one  "key": value  member of a JSON  *)
(* object (ty "num": a JSON number n; ty "str": a JSON string s; ty "null").*)
(***************************************************************************)
Ch(c) == [c |-> c, k |-> "", ty |-> "", n |-> 0, s |-> ""]
Num(k, n) == [c |-> "fld", k |-> k, ty |-> "num", n |-> n, s |-> ""]
Str(k, s) == [c |-> "fld", k |-> k, ty |-> "str", n |-> 0, s |-> s]
Null(k) == [c |-> "fld", k |-> k, ty |-> "null", n |-> 0, s |-> ""]
LB == Ch("{")
RB == Ch("}")
WS == Ch(" ")
W == Ch("w")

\* str.strip(): leading and trailing whitespace removed
RECURSIVE LStrip(_)
LStrip(t) == IF t # <<>> /\ Head(t) = WS THEN LStrip(Tail(t)) ELSE t

RECURSIVE RStrip(_)
RStrip(t) ==
    IF t # <<>> /\ t[Len(t)] = WS THEN RStrip(SubSeq(t, 1, Len(t) - 1)) ELSE t

Strip(t) == RStrip(LStrip(t))

\* str.find(ch): 0-based index of the first occurrence, -1 when there is none
Find(t, ch) ==
    LET hits == {i \in 1..Len(t) : t[i] = ch}
    IN IF hits = {} THEN -1
       ELSE (CHOOSE i \in hits : \A j \in hits : i <= j) - 1

\* str.rfind(ch): 0-based index of the last occurrence, -1 when there is none
RFind(t, ch) ==
    LET hits == {i \in 1..Len(t) : t[i] = ch}
    IN IF hits = {} THEN -1
       ELSE (CHOOSE i \in hits : \A j \in hits : i >= j) - 1

\* response[start:end] for 0 <= start < end <= len
Slice(t, start, end) == SubSeq(t, start + 1, end)

\* json.loads on a span that starts with "{" and ends with "}": it decodes
\* exactly when everything between the two braces is members and whitespace.
Decodable(js) ==
    /\ Len(js) >= 2
    /\ js[1] = LB
    /\ js[Len(js)] = RB
    /\ \A i \in 2..(Len(js) - 1) : js[i].c = "fld" \/ js[i] = WS

\* The decoded dict: key -> the last member with that key (json.loads keeps
\* the last duplicate); HasKey / Member read it.
HasKey(js, key) == \E i \in 1..Len(js) : js[i].c = "fld" /\ js[i].k = key

Member(js, key) ==
    LET hits == {i \in 1..Len(js) : js[i].c = "fld" /\ js[i].k = key}
    IN js[CHOOSE i \in hits : \A j \in hits : i >= j]

\* float(x) raises ValueError on a string that is no number and TypeError on
\* None; the strings of the model that are numbers are the digit strings.
NumStrings == {"0", "1", "2", "3"}
StrToNum(s) == CASE s = "0" -> 0 [] s = "1" -> 1 [] s = "2" -> 2 [] OTHER -> 3

FloatOk(m) == m.ty = "num" \/ (m.ty = "str" /\ m.s \in NumStrings)
FloatOf(m) == IF m.ty = "num" THEN m.n ELSE StrToNum(m.s)
FloatError(m) ==
    IF m.ty = "null" THEN "TypeError: float() argument must be a string or a real number"
    ELSE "ValueError: could not convert string to float"

\* result.get(key, default) for the two text fields: any JSON value passes
TextOf(js, key) ==
    IF ~HasKey(js, key) THEN ""
    ELSE LET m == Member(js, key)
         IN CASE m.ty = "str" -> m.s
              [] m.ty = "null" -> None
              [] OTHER -> "<number>"

FEEDBACK_PARSE == "Vastauksen kasittelyssa tapahtui virhe."
FEEDBACK_RETRIES == "Arvostelua ei voitu suorittaa teknisen virheen vuoksi."
FEEDBACK_UNHANDLED == "Tekninen virhe arvioinnissa."

\* The dict parse_agent_response builds (no status yet)
Parsed(qid, order, pe, pp, fb, ca) ==
    [question_id |-> qid, order |-> order, points_earned |-> pe,
     points_possible |-> pp, feedback |-> fb, correct_answer |-> ca]

\* lines 213-220: the default returned when no object was found or decoded
ParseDefault(order) == Parsed(order, order, 0, 3, FEEDBACK_PARSE, "")

\* lines 193-196: the span from the first "{" to the last "}"
HasSpan(r) == Find(r, LB) # -1 /\ RFind(r, RB) + 1 > Find(r, LB)

\* Mutant: no extraction, the whole stripped text goes to json.loads
JsonSpanWholeText(r) == r

JsonSpan(r) == Slice(r, Find(r, LB), RFind(r, RB) + 1)

\* lines 201-208 on the decoded object: [raised, msg, val].  A float() that
\* fails raises ValueError or TypeError.
\* Mutant: a missing points_possible defaults to 0, like points_earned
FieldsOfZeroPossible(json_str, order) ==
    LET pe == Member(json_str, "points_earned")
        pp == Member(json_str, "points_possible")
    IN IF HasKey(json_str, "points_earned") /\ ~FloatOk(pe)
       THEN [raised |-> TRUE, msg |-> FloatError(pe), val |-> ParseDefault(order)]
       ELSE IF HasKey(json_str, "points_possible") /\ ~FloatOk(pp)
       THEN [raised |-> TRUE, msg |-> FloatError(pp), val |-> ParseDefault(order)]
       ELSE [raised |-> FALSE, msg |-> "",
             val |-> Parsed(order, order,
                            IF HasKey(json_str, "points_earned") THEN FloatOf(pe) ELSE 0,
                            IF HasKey(json_str, "points_possible") THEN FloatOf(pp) ELSE 0,
                            TextOf(json_str, "feedback"),
                            TextOf(json_str, "correct_answer"))]

FieldsOf(json_str, order) ==
    LET pe == Member(json_str, "points_earned")
        pp == Member(json_str, "points_possible")
    IN IF HasKey(json_str, "points_earned") /\ ~FloatOk(pe)
       THEN [raised |-> TRUE, msg |-> FloatError(pe), val |-> ParseDefault(order)]
       ELSE IF HasKey(json_str, "points_possible") /\ ~FloatOk(pp)
       THEN [raised |-> TRUE, msg |-> FloatError(pp), val |-> ParseDefault(order)]
       ELSE [raised |-> FALSE, msg |-> "",
             val |-> Parsed(order, order,
                            IF HasKey(json_str, "points_earned") THEN FloatOf(pe) ELSE 0,
                            IF HasKey(json_str, "points_possible") THEN FloatOf(pp) ELSE 3,
                            TextOf(json_str, "feedback"),
                            TextOf(json_str, "correct_answer"))]

\* Mutant: a text with no span, or with a span json.loads rejects, raises
\* instead of yielding the default
ParseAgentResponseRaising(response, order) ==
    LET r == Strip(response)
    IN IF HasSpan(r) /\ Decodable(JsonSpan(r))
       THEN FieldsOf(JsonSpan(r), order)
       ELSE [raised |-> TRUE, msg |-> "MalformedResponse", val |-> ParseDefault(order)]

\* parse_agent_response(response, order): [raised, msg, val].  It returns the
\* fields of the decoded object, or the default when there is no "{".."}" span
\* or json.loads fails (JSONDecodeError is caught, line 209); a float() that
\* fails is not caught here and propagates to the caller.
parse_agent_response(response, order) ==
    LET r == Strip(response)
    IN IF HasSpan(r) /\ Decodable(JsonSpan(r))
       THEN FieldsOf(JsonSpan(r), order)
       ELSE [raised |-> FALSE, msg |-> "", val |-> ParseDefault(order)]

(***************************************************************************)
(* Questions and batches                                                    *)
(***************************************************************************)
AbsentStr == "<absent>"
\* selected_answers: the key is missing / its value is None
AbsentList == <<"<absent>">>
NoneList == <<"<None>">>

\* A question dict: the keys grade_single_question and
\* format_question_for_agent read.  order and points_possible may be Absent.
MkQuestion(order, pp, qtype, answer, selected) ==
    [order |-> order, points_possible |-> pp, question_type |-> qtype,
     answer |-> answer, selected_answers |-> selected]

\* The other keys of the question at position p of a batch: a text question
\* that declares no points_possible, a multiple_choice question with nothing
\* selected, a text question whose answer is an <img alt=...> tag.
QuestionAt(p, order) ==
    CASE p % 3 = 1 -> MkQuestion(order, Absent, "text", "42 m/s", <<>>)
      [] p % 3 = 2 -> MkQuestion(order, 5, "multiple_choice", AbsentStr, <<>>)
      [] OTHER -> MkQuestion(order, 2, "text", "<img alt=F=ma>", <<>>)

\* All orderings of 0..n-1
Perms(n) == {f \in [1..n -> 0..(n - 1)] : \A a, b \in 1..n : a # b => f[a] # f[b]}

\* The order keys of a batch of n questions: every submission order of
\* 0..n-1, a batch whose orders start at 1 (a gap at 0), a batch with no
\* order keys at all, and a batch whose first question has none.
OrderSeqs(n) ==
    Perms(n)
    \cup {[p \in 1..n |-> p]}
    \cup {[p \in 1..n |-> Absent]}
    \cup {[p \in 1..n |-> IF p = 1 THEN Absent ELSE p - 1]}

Batches(n) == {[p \in 1..n |-> QuestionAt(p, o[p])] : o \in OrderSeqs(n)}

\* The request bodies of the route specification: the empty list, and lists
\* whose orders are 0..n-1 as submitted
RouteBatches == {[p \in 1..n |-> QuestionAt(p, p - 1)] : n \in 0..MaxN}

\* The batch of the end-to-end scenario: three questions with orders 0, 1, 2
ExampleBatch == [p \in 1..3 |-> QuestionAt(p, p - 1)]

\* The batches of the termination specification: 1..MaxN questions with
\* orders 0..n-1 as submitted
LiveBatches == {[p \in 1..n |-> QuestionAt(p, p - 1)] : n \in 1..MaxN}

\* The answer data a question can carry: a multiple_choice question with an
\* empty selected_answers list, one with no selected_answers key, a text
\* question with an answer, one with no answer key, and one whose answer is
\* null
AnswerKinds ==
    {MkQuestion(0, 5, "multiple_choice", AbsentStr, <<>>),
     MkQuestion(0, 5, "multiple_choice", AbsentStr, AbsentList),
     MkQuestion(0, Absent, "text", "42 m/s", AbsentList),
     MkQuestion(0, Absent, "text", AbsentStr, AbsentList),
     MkQuestion(0, Absent, "text", None, AbsentList)}

\* The batches of the answer-data specification: one question of any kind,
\* or two (orders 0 and 1)
AnswerBatches ==
    {<<a>> : a \in AnswerKinds}
    \cup {<<a, [b EXCEPT !.order = 1]>> : a \in AnswerKinds, b \in AnswerKinds}

\* Batches larger than the semaphore: orders 0..n-1 as submitted
GateBatches ==
    {[p \in 1..n |-> QuestionAt(p, p - 1)] :
        n \in (MAX_PARALLEL_TASKS + 1)..(MAX_PARALLEL_TASKS + MaxExtra)}

(***************************************************************************)
(* What one call of the grading capability can do: raise, run past         *)
(* REQUEST_TIMEOUT, or return a text.                                       *)
(***************************************************************************)
Raise(msg) == [kind |-> "raise", msg |-> msg, text |-> <<>>]
TimesOut == [kind |-> "timeout", msg |-> "", text |-> <<>>]
Text(t) == [kind |-> "text", msg |-> "", text |-> t]
NoResult == [kind |-> "none", msg |-> "", text |-> <<>>]

\* a complete object that also proposes its own question_id
T_full ==
    <<LB, Num("question_id", 9), Num("points_earned", 2), Num("points_possible", 5),
      Str("feedback", "Oikein"), Str("correct_answer", "F=ma"), RB>>
\* an object with only points_earned (as a string), inside prose
T_prose == <<WS, W, W, WS, LB, Str("points_earned", "1"), RB, W, WS>>
\* prose with no object
T_nospan == <<W, W, WS, W>>
\* braces around something that is no JSON
T_undec == <<LB, W, RB>>
\* an object whose points_earned is no number
T_badnum == <<LB, Str("points_earned", "abc"), RB>>

EngineResults ==
    {Raise("ConnectionError"), TimesOut,
     Text(T_full), Text(T_prose), Text(T_nospan), Text(T_undec), Text(T_badnum)}

\* The engine of the end-to-end scenario: it grades 3 of 3, or it fails
T_3of3 == <<LB, Num("points_earned", 3), Num("points_possible", 3), RB>>
ExampleResults == {Raise("ConnectionError"), Text(T_3of3)}

\* The engine of the termination specification: the three ways an attempt
\* can end (the text is the empty object)
T_empty == <<LB, RB>>
LiveResults == {Raise("ConnectionError"), TimesOut, Text(T_empty)}

\* The engine of the answer-data specification: it fails, or it grades 2 of
\* 5, or it answers with the empty object
AnswerResults == {Raise("ConnectionError"), Text(T_full), Text(T_empty)}

\* The engine of the field-defaults specification: it fails, or answers an
\* object with all the fields, with none, or with two of the four
T_earned_answer == <<LB, Num("points_earned", 1), Str("correct_answer", "F=ma"), RB>>
T_possible_feedback == <<LB, Num("points_possible", 4), Str("feedback", "Oikein"), RB>>
DefaultsResults ==
    {Raise("ConnectionError"), Text(T_full), Text(T_empty), Text(T_earned_answer),
     Text(T_possible_feedback)}

\* The engine of the semaphore specification: one answer, one failure
GateResults == {Raise("ConnectionError"), Text(T_full)}

(***************************************************************************)
(* State                                                                    *)
(***************************************************************************)
VARIABLES
    questions,        \* the batch given to process_all_questions
    engine,           \* the results the grading capability can give in this run
    semaphore,        \* value of asyncio.Semaphore(MAX_PARALLEL_TASKS)
    st,               \* per task: "waiting" | "inflight" | "sleeping" | "done"
    attempt,          \* per task: the loop variable of line 81
    sleepFor,         \* per task: the delay of the asyncio.sleep it is in, else 0
    engine_input,     \* per task: the agent_input of its latest attempt
    lastResult,       \* per task: what the engine did on the attempt whose result
                      \* or exception the task is holding (NoResult otherwise)
    results,          \* per task: what gather collected for it
    pc,               \* process_all_questions: "gather" | "deliver" | "dsleep" | "returned"
    final_payload,    \* the payload dict, once built
    warned,           \* the "Order mismatch!" warning was logged
    webhook_success,  \* line 303
    dattempt,         \* the loop variable of line 304
    dsleepFor,        \* the delay of the asyncio.sleep of line 319 while in it, else 0
    posts,            \* number of POSTs made to callback_url
    posted_body,      \* the JSON body of the latest POST
    callback_log,     \* what the callback endpoint answered to each POST so far
    handler,          \* the route that received the batch, or "direct" when
                      \* process_all_questions is called on its own
    background_tasks, \* number of runs added with background_tasks.add_task
    response,         \* the HTTP response of the route, once sent
    parse_case,       \* one response text given to parse_agent_response on its
                      \* own: the object, the prose around it, and what the
                      \* calls returned
    gates,            \* when several calls of process_all_questions run at the
                      \* same time: the value of each semaphore made at line 239
    batch_st,         \* ... and, per call, the state of each of its tasks
    exam_requests,    \* main/views.py: the ExamRequest rows, in creation order
    senders,          \* per ExamRequest: its _call_exam_webhook_async thread
    view,             \* the exam_webhook call that is between two queries
    serial,           \* TRUE when the server runs the views one at a time
    exams,            \* the Exam rows, in creation order
    submissions,      \* the ExamSubmission rows with their QuestionGrade rows
    grading_response  \* what the latest grading_webhook call returned

vars ==
    <<questions, engine, semaphore, st, attempt, sleepFor, engine_input, lastResult,
      results, pc, final_payload, warned, webhook_success, dattempt, dsleepFor, posts, posted_body,
      callback_log, handler, background_tasks, response, parse_case, gates, batch_st,
      exam_requests, senders, view, serial, exams, submissions, grading_response>>

taskVars == <<semaphore, st, attempt, sleepFor, engine_input, lastResult, results>>
deliveryVars ==
    <<pc, final_payload, warned, webhook_success, dattempt, dsleepFor, posts, posted_body,
      callback_log>>
routeVars == <<handler, background_tasks, response>>
callVars == <<gates, batch_st>>
requestVars == <<exam_requests, senders, view>>
dbVars == <<exam_requests, senders, view, serial, exams, submissions, grading_response>>

\* No view call is between two queries
NoView == [pc |-> "idle", request_id |-> 0, body |-> "", loaded |-> <<>>, exam |-> 0]
\* grading_webhook was not called yet
NoGradingResponse == [status_code |-> 0, posted |-> <<>>, submission_id |-> 0, deleted |-> 0]

\* The database of main/ before any view was called: no rows
EmptyDatabase ==
    /\ exam_requests = <<>>
    /\ senders = <<>>
    /\ view = NoView
    /\ exams = <<>>
    /\ submissions = <<>>
    /\ grading_response = NoGradingResponse

\* The grading server on its own: main/ is not involved
DbUnused == EmptyDatabase /\ serial = TRUE

(***************************************************************************)
(* grade_single_question: the pieces of one task                            *)
(***************************************************************************)
\* line 78: order = question.get("order", 0)
OrderOf(question) == Get(question.order, 0)

\* format_question_for_agent (lines 148-180): the dict that is serialised.
\* A multiple_choice question sends its selected_answers (an empty list when
\* there are none); a text question sends its answer, or the alt text of an
\* <img> tag.
AltText(answer) == IF answer = "<img alt=F=ma>" THEN "F=ma" ELSE answer

\* lines 163-164: selected = question.get("selected_answers", []);
\* "selected if selected else []" (a missing key, None and [] all give [])
SelectedOf(question) ==
    IF question.selected_answers \in {AbsentList, NoneList} THEN <<>>
    ELSE question.selected_answers

\* line 169: "<img" in answer raises TypeError when answer is None (a JSON
\* null); the multiple_choice branch never reads answer
FormatRaises(question) ==
    question.question_type # "multiple_choice" /\ question.answer = None

FORMAT_TYPE_ERROR == "TypeError: argument of type 'NoneType' is not iterable"

format_question_for_agent(question) ==
    IF question.question_type = "multiple_choice"
    THEN [question_type |-> "multiple_choice", student_answer |-> "",
          selected |-> SelectedOf(question)]
    ELSE [question_type |-> question.question_type,
          student_answer |-> AltText(IF question.answer = AbsentStr THEN ""
                                     ELSE question.answer),
          selected |-> <<>>]

\* no agent_input was built yet
NoInput == [question_type |-> "<none>", student_answer |-> "", selected |-> <<>>]

\* lines 95-122: what the try block ends with for one result of the engine:
\* [raised, msg, val].  An engine exception propagates; a timeout is raised
\* again as Exception("Timeout after 120s"); a text goes to
\* parse_agent_response, whose own exceptions propagate.
TimeoutMessage == "Timeout after 120s"

\* Mutant: the timeout is swallowed and the empty response_text of line 96
\* is parsed
AttemptOutcomeTimeoutSwallowed(r, order) ==
    CASE r.kind = "raise" -> [raised |-> TRUE, msg |-> r.msg, val |-> ParseDefault(order)]
      [] r.kind = "timeout" -> parse_agent_response(<<>>, order)
      [] OTHER -> parse_agent_response(r.text, order)

AttemptOutcome(r, order) ==
    CASE r.kind = "raise" -> [raised |-> TRUE, msg |-> r.msg, val |-> ParseDefault(order)]
      [] r.kind = "timeout" ->
            [raised |-> TRUE, msg |-> TimeoutMessage, val |-> ParseDefault(order)]
      [] OTHER -> parse_agent_response(r.text, order)

\* line 86: agent_input, when format_question_for_agent returns
AgentInput(question) ==
    IF FormatRaises(question) THEN NoInput ELSE format_question_for_agent(question)

\* lines 86-117: the engine is called only if line 86 did not raise; when it
\* is not called there is no result of the engine (NoResult)
EngineCalls(question, eng) == IF FormatRaises(question) THEN {NoResult} ELSE eng

\* lines 82-127: the try block of one attempt, [raised, msg, val]
TryBlock(question, r) ==
    IF FormatRaises(question)
    THEN [raised |-> TRUE, msg |-> FORMAT_TYPE_ERROR, val |-> ParseDefault(OrderOf(question))]
    ELSE AttemptOutcome(r, OrderOf(question))

\* Mutant: a success dict carries an empty message instead of None
SuccessOutcomeEmptyMessage(parsed) == parsed @@ [status |-> "success", error_message |-> ""]

\* lines 123-124: result["status"] = "success"; result["error_message"] = None
SuccessOutcome(parsed) == parsed @@ [status |-> "success", error_message |-> None]

\* Mutant: the error dict ignores the question's declared points_possible
ErrorOutcomeDefaultPoints(question, order, e) ==
    [question_id |-> order, order |-> order, points_earned |-> 0,
     points_possible |-> 3,
     feedback |-> FEEDBACK_RETRIES, correct_answer |-> "",
     status |-> "error", error_message |-> e]

\* lines 136-145: the dict returned when the last attempt failed with e
ErrorOutcome(question, order, e) ==
    [question_id |-> order, order |-> order, points_earned |-> 0,
     points_possible |-> Get(question.points_possible, 3),
     feedback |-> FEEDBACK_RETRIES, correct_answer |-> "",
     status |-> "error", error_message |-> e]

\* Mutant: the attempt counter is shared by the tasks of the batch, so a
\* task has retries left only while no task is on its last attempt
RetriesLeftShared(a) == \A j \in DOMAIN attempt : attempt[j] < MAX_RETRIES - 1

\* Mutant: one retry fewer
RetriesLeftOffByOne(a) == a < MAX_RETRIES - 2

\* line 132: attempt < MAX_RETRIES - 1
RetriesLeft(a) == a < MAX_RETRIES - 1

\* Mutant: the same delay after every failed attempt
BackoffFixed(a) == RETRY_DELAY

\* line 133: RETRY_DELAY * (attempt + 1)
Backoff(a) == RETRY_DELAY * (a + 1)

\* Mutant: acquire never proceeds
CanAcquireNever(value) == FALSE

\* Mutant: acquire never waits
CanAcquireAlways(value) == TRUE

\* asyncio.Semaphore: acquire proceeds while the value is positive
CanAcquire(value) == value > 0

\* Mutant: leaving the "async with" block gives no slot back
ReleaseNone(value) == value

\* line 80: "async with semaphore" releases on every way out of the block (a
\* return or an exception); asyncio.Semaphore.release adds one to the value
Release(value) == value + 1

\* Mutant: the slot is given back when the task starts to back off
DuringBackoffReleased(value) == value + 1

\* lines 80-133: the sleep of line 133 is inside the "async with" block of
\* line 80, so the semaphore is not touched between two attempts
DuringBackoff(value) == value

\* What a finished task hands to gather: a returned dict, or an exception
Returned(v) == [raised |-> FALSE, msg |-> "", val |-> v]
Pending ==
    [raised |-> FALSE, msg |-> "<pending>",
     val |-> ParseDefault(0) @@ [status |-> "<pending>", error_message |-> None]]

N == Len(questions)
Tasks == 1..N

NoPayload == [results |-> <<>>]
NoResponse == [status_code |-> 0]
NoParse == [raised |-> FALSE, msg |-> "<not called>", val |-> ParseDefault(0)]
NoParseCase ==
    [before |-> <<>>, object |-> <<>>, after |-> <<>>, order |-> 0,
     bare |-> NoParse, wrapped |-> NoParse]

InitWith(batches, eng) ==
    /\ questions \in batches
    /\ engine = eng
    /\ semaphore = MAX_PARALLEL_TASKS
    /\ st = [i \in 1..Len(questions) |-> "waiting"]
    /\ attempt = [i \in 1..Len(questions) |-> 0]
    /\ sleepFor = [i \in 1..Len(questions) |-> 0]
    /\ engine_input = [i \in 1..Len(questions) |-> NoInput]
    /\ lastResult = [i \in 1..Len(questions) |-> NoResult]
    /\ results = [i \in 1..Len(questions) |-> Pending]
    /\ pc = "gather"
    /\ final_payload = NoPayload
    /\ warned = FALSE
    /\ webhook_success = FALSE
    /\ dattempt = 0
    /\ dsleepFor = 0
    /\ posts = 0
    /\ posted_body = NoPayload
    /\ callback_log = <<>>
    /\ handler = "direct"
    /\ background_tasks = 0
    /\ response = NoResponse
    /\ parse_case = NoParseCase
    /\ gates = <<>>
    /\ batch_st = <<>>
    /\ DbUnused

Init == InitWith(UNION {Batches(n) : n \in 1..MaxN}, EngineResults)

InitGate == InitWith(GateBatches, GateResults)

InitExample == InitWith({ExampleBatch}, ExampleResults)

InitFault == InitWith(UNION {Batches(n) : n \in 1..MaxN}, GateResults)

\* One question more than the semaphore has slots
InitGateFault ==
    InitWith({[p \in 1..(MAX_PARALLEL_TASKS + 1) |-> QuestionAt(p, p - 1)]}, GateResults)

InitDefaults == InitWith(LiveBatches, DefaultsResults)

InitLive == InitWith(LiveBatches, LiveResults)

InitAnswers == InitWith(AnswerBatches, AnswerResults)

\* A request body arrives at one of the two routes: a list of 0..MaxN
\* questions
Routes == {"/grade", "/grade/sync"}

InitRoute ==
    /\ questions \in RouteBatches
    /\ engine = GateResults
    /\ handler \in Routes
    /\ pc = "received"
    /\ semaphore = MAX_PARALLEL_TASKS
    /\ st = [i \in 1..Len(questions) |-> "waiting"]
    /\ attempt = [i \in 1..Len(questions) |-> 0]
    /\ sleepFor = [i \in 1..Len(questions) |-> 0]
    /\ engine_input = [i \in 1..Len(questions) |-> NoInput]
    /\ lastResult = [i \in 1..Len(questions) |-> NoResult]
    /\ results = [i \in 1..Len(questions) |-> Pending]
    /\ final_payload = NoPayload
    /\ warned = FALSE
    /\ webhook_success = FALSE
    /\ dattempt = 0
    /\ dsleepFor = 0
    /\ posts = 0
    /\ posted_body = NoPayload
    /\ callback_log = <<>>
    /\ background_tasks = 0
    /\ response = NoResponse
    /\ parse_case = NoParseCase
    /\ gates = <<>>
    /\ batch_st = <<>>
    /\ DbUnused

(***************************************************************************)
(* The tasks (lines 69-145)                                                 *)
(***************************************************************************)
\* line 80: the task enters "async with semaphore" and starts attempt 0.
\* gather starts the tasks in list order and asyncio.Semaphore wakes its
\* waiters first come first served, so the tasks are admitted in list order.
Acquire(i) ==
    /\ pc = "gather"
    /\ st[i] = "waiting"
    /\ \A j \in 1..(i - 1) : st[j] # "waiting"
    /\ CanAcquire(semaphore)
    /\ semaphore' = semaphore - 1
    /\ st' = [st EXCEPT ![i] = "inflight"]
    /\ attempt' = [attempt EXCEPT ![i] = 0]
    /\ engine_input' = [engine_input EXCEPT ![i] = AgentInput(questions[i])]
    /\ UNCHANGED callVars
    /\ UNCHANGED dbVars
    /\ UNCHANGED <<questions, engine, parse_case, routeVars, sleepFor, lastResult, results>>
    /\ UNCHANGED deliveryVars

\* lines 121-127: the attempt produced a dict; the task returns it and
\* leaves the "async with" block, releasing its slot
AttemptSucceeds(i) ==
    /\ pc = "gather"
    /\ st[i] = "inflight"
    /\ \E r \in EngineCalls(questions[i], engine) :
          LET o == TryBlock(questions[i], r)
          IN /\ ~o.raised
             /\ lastResult' = [lastResult EXCEPT ![i] = r]
             /\ results' = [results EXCEPT ![i] = Returned(SuccessOutcome(o.val))]
    /\ st' = [st EXCEPT ![i] = "done"]
    /\ semaphore' = Release(semaphore)
    /\ UNCHANGED callVars
    /\ UNCHANGED dbVars
    /\ UNCHANGED <<questions, engine, parse_case, routeVars, engine_input, attempt, sleepFor>>
    /\ UNCHANGED deliveryVars

\* lines 129-133: the attempt raised and attempts remain: back off
AttemptFailsRetry(i) ==
    /\ pc = "gather"
    /\ st[i] = "inflight"
    /\ RetriesLeft(attempt[i])
    /\ \E r \in EngineCalls(questions[i], engine) :
          /\ TryBlock(questions[i], r).raised
          /\ lastResult' = [lastResult EXCEPT ![i] = r]
    /\ st' = [st EXCEPT ![i] = "sleeping"]
    /\ sleepFor' = [sleepFor EXCEPT ![i] = Backoff(attempt[i])]
    /\ semaphore' = DuringBackoff(semaphore)
    /\ UNCHANGED callVars
    /\ UNCHANGED dbVars
    /\ UNCHANGED <<questions, engine, parse_case, routeVars, engine_input, attempt, results>>
    /\ UNCHANGED deliveryVars

\* lines 134-145: the last attempt raised: the error dict is returned and
\* the slot released
AttemptFailsLast(i) ==
    /\ pc = "gather"
    /\ st[i] = "inflight"
    /\ ~RetriesLeft(attempt[i])
    /\ \E r \in EngineCalls(questions[i], engine) :
          LET o == TryBlock(questions[i], r)
          IN /\ o.raised
             /\ lastResult' = [lastResult EXCEPT ![i] = r]
             /\ results' = [results EXCEPT ![i] =
                    Returned(ErrorOutcome(questions[i], OrderOf(questions[i]), o.msg))]
    /\ st' = [st EXCEPT ![i] = "done"]
    /\ semaphore' = Release(semaphore)
    /\ UNCHANGED callVars
    /\ UNCHANGED dbVars
    /\ UNCHANGED <<questions, engine, parse_case, routeVars, engine_input, attempt, sleepFor>>
    /\ UNCHANGED deliveryVars

\* the sleep of line 133 ends; line 81 takes the next attempt (lines 83-117)
Wake(i) ==
    /\ pc = "gather"
    /\ st[i] = "sleeping"
    /\ st' = [st EXCEPT ![i] = "inflight"]
    /\ attempt' = [attempt EXCEPT ![i] = attempt[i] + 1]
    /\ sleepFor' = [sleepFor EXCEPT ![i] = 0]
    /\ lastResult' = [lastResult EXCEPT ![i] = NoResult]
    /\ engine_input' = [engine_input EXCEPT ![i] = AgentInput(questions[i])]
    /\ UNCHANGED callVars
    /\ UNCHANGED dbVars
    /\ UNCHANGED <<questions, engine, parse_case, routeVars, semaphore, results>>
    /\ UNCHANGED deliveryVars

\* An exception that is raised inside the except block of lines 129-145 (by
\* the logging call of line 130, say) is not caught by that block: it leaves
\* the coroutine through "async with", which releases the slot, and gather
\* (return_exceptions=True) collects the exception object in place of a dict.
\* Nothing in the source raises there; this is a fault of the environment.
HANDLER_ERROR == "OSError: [Errno 28] No space left on device"

Raised(msg) ==
    [raised |-> TRUE, msg |-> msg,
     val |-> ParseDefault(0) @@ [status |-> "<exception>", error_message |-> None]]

TaskRaises(i) ==
    /\ pc = "gather"
    /\ st[i] = "inflight"
    /\ \E r \in EngineCalls(questions[i], engine) :
          /\ TryBlock(questions[i], r).raised
          /\ lastResult' = [lastResult EXCEPT ![i] = r]
    /\ results' = [results EXCEPT ![i] = Raised(HANDLER_ERROR)]
    /\ st' = [st EXCEPT ![i] = "done"]
    /\ semaphore' = Release(semaphore)
    /\ UNCHANGED callVars
    /\ UNCHANGED dbVars
    /\ UNCHANGED <<questions, engine, parse_case, routeVars, engine_input, attempt, sleepFor>>
    /\ UNCHANGED deliveryVars

(***************************************************************************)
(* process_all_questions after gather (lines 250-300)                       *)
(***************************************************************************)
\* Mutant: the fallback dict takes the question's declared points_possible,
\* as the error dict of the task does
FallbackDeclaredPoints(i, question, msg) ==
    [question_id |-> i, order |-> Get(question.order, i), points_earned |-> 0,
     points_possible |-> Get(question.points_possible, 3),
     feedback |-> FEEDBACK_UNHANDLED, correct_answer |-> "",
     status |-> "error", error_message |-> msg]

\* lines 255-264: the dict made for a task that ended with an exception;
\* i is the 0-based position of enumerate(results)
Fallback(i, question, msg) ==
    [question_id |-> i, order |-> Get(question.order, i), points_earned |-> 0,
     points_possible |-> 3, feedback |-> FEEDBACK_UNHANDLED, correct_answer |-> "",
     status |-> "error", error_message |-> msg]

\* Mutant: the results that are exceptions are left out
NotRaised(r) == ~r.raised
ProcessedResultsDropRaised(res, qs) ==
    LET kept == SelectSeq(res, NotRaised)
    IN [i \in 1..Len(kept) |-> kept[i].val]

\* lines 251-266
ProcessedResults(res, qs) ==
    [i \in 1..Len(res) |->
        IF res[i].raised THEN Fallback(i - 1, qs[i], res[i].msg) ELSE res[i].val]

\* Mutant: no sort at all (the outcomes stay in task order)
SortByOrderNone(seq) == seq

\* Mutant: the outcomes are keyed by order before sorting, so that of two
\* outcomes with the same order only the later one is kept
SortByOrderDedup(seq) ==
    LET orders == {seq[i].order : i \in 1..Len(seq)}
        asc == CHOOSE f \in [1..Cardinality(orders) -> orders] :
                  \A a, b \in 1..Cardinality(orders) : a < b => f[a] < f[b]
    IN [k \in 1..Cardinality(orders) |->
           seq[CHOOSE i \in 1..Len(seq) :
                  /\ seq[i].order = asc[k]
                  /\ \A j \in 1..Len(seq) : seq[j].order = asc[k] => j <= i]]

\* line 269: list.sort(key=order), a stable sort
RECURSIVE InsertByOrder(_, _)
InsertByOrder(sorted, x) ==
    IF sorted = <<>> THEN <<x>>
    ELSE IF sorted[Len(sorted)].order <= x.order THEN Append(sorted, x)
    ELSE Append(InsertByOrder(SubSeq(sorted, 1, Len(sorted) - 1), x), sorted[Len(sorted)])

RECURSIVE SortByOrder(_)
SortByOrder(seq) ==
    IF seq = <<>> THEN <<>>
    ELSE InsertByOrder(SortByOrder(SubSeq(seq, 1, Len(seq) - 1)), seq[Len(seq)])

\* Mutant: question_id is set to the position in the sorted list
VerifyOrderIntegrityByPosition(sorted) ==
    [idx \in 1..Len(sorted) |-> [sorted[idx] EXCEPT !.question_id = idx - 1]]

\* Mutant: the outcomes are renumbered by their sorted position
VerifyOrderIntegrityRenumber(sorted) ==
    [idx \in 1..Len(sorted) |->
        [sorted[idx] EXCEPT !.question_id = idx - 1, !.order = idx - 1]]

\* lines 272-276 and 284-285: result["question_id"] = result["order"]
VerifyOrderIntegrity(sorted) ==
    [idx \in 1..Len(sorted) |-> [sorted[idx] EXCEPT !.question_id = sorted[idx].order]]

\* Mutant: the orders are never compared with range(len(processed_results))
OrderMismatchNever(sorted) == FALSE

\* lines 279-281: orders != list(range(len(processed_results)))
OrderMismatch(sorted) ==
    [idx \in 1..Len(sorted) |-> sorted[idx].order] # [idx \in 1..Len(sorted) |-> idx - 1]

\* Mutant: failed counts every outcome, whatever its status
MetadataMiscount(qs, processed) ==
    [total_questions |-> Len(qs),
     successful |-> Cardinality({i \in 1..Len(processed) : processed[i].status = "success"}),
     failed |-> Len(processed)]

\* lines 293-296 (the two clock fields are left out)
Metadata(qs, processed) ==
    [total_questions |-> Len(qs),
     successful |-> Cardinality({i \in 1..Len(processed) : processed[i].status = "success"}),
     failed |-> Cardinality({i \in 1..Len(processed) : processed[i].status = "error"})]

\* Mutant: gather returns as soon as one task has finished
AllDoneFirstCompleted == \E i \in Tasks : st[i] = "done"

AllDone == \A i \in Tasks : st[i] = "done"

\* gather returns: lines 250-300 run without suspending, up to the first POST.
\* The task coroutines are finished and their locals gone; the list gather
\* returned (results) stays.
Collect ==
    /\ pc = "gather"
    /\ AllDone
    /\ LET processed == VerifyOrderIntegrity(SortByOrder(ProcessedResults(results, questions)))
       IN /\ final_payload' = [results |-> processed,
                               metadata |-> Metadata(questions, processed)]
          /\ warned' = OrderMismatch(processed)
    /\ pc' = "deliver"
    /\ attempt' = [i \in Tasks |-> 0]
    /\ lastResult' = [i \in Tasks |-> NoResult]
    /\ UNCHANGED callVars
    /\ UNCHANGED dbVars
    /\ UNCHANGED <<questions, engine, parse_case, routeVars, webhook_success, dattempt,
                   dsleepFor, posts,
                   posted_body,
                   callback_log>>
    /\ UNCHANGED <<semaphore, st, sleepFor, engine_input, results>>

(***************************************************************************)
(* Delivery (lines 302-322)                                                 *)
(***************************************************************************)
\* Mutant: the delivery loop gives up one attempt early
DeliveryRetriesLeftOffByOne(a) == a < MAX_RETRIES - 2

\* line 318: attempt < MAX_RETRIES - 1
DeliveryRetriesLeft(a) == a < MAX_RETRIES - 1

\* Mutant: the delivery delay grows with the attempt like the grading delay
DeliverySleepGrowing(a) == RETRY_DELAY * (a + 1)

\* line 319: asyncio.sleep(RETRY_DELAY), the same for every attempt
DeliverySleep(a) == RETRY_DELAY

\* lines 307-312, 316: what makes a POST fail: client.post raises (a transport
\* error or the 30 s client timeout), or raise_for_status raises on a
\* response that is not 2xx
PostFailures == {"transport_error", "non_2xx"}

\* Mutant: the payload always reports the delivery as made
WithWebhookSentAlways(payload, sent) == payload @@ [webhook_sent |-> TRUE]

\* line 321
WithWebhookSent(payload, sent) == payload @@ [webhook_sent |-> sent]

\* Mutant: the delivery flag is stored in the payload before it is sent
JsonBodyWithFlag(payload) == payload @@ [webhook_sent |-> FALSE]

\* line 309: json=final_payload, the dict serialised with the keys it has
\* when client.post is called
JsonBody(payload) == [key \in DOMAIN payload |-> payload[key]]

\* lines 306-315, 321-322: the POST got a 2xx: break, set webhook_sent, return
PostSucceeds ==
    /\ pc = "deliver"
    /\ posts' = posts + 1
    /\ posted_body' = JsonBody(final_payload)
    /\ callback_log' = Append(callback_log, "2xx")
    /\ webhook_success' = TRUE
    /\ final_payload' = WithWebhookSent(final_payload, TRUE)
    /\ pc' = "returned"
    /\ UNCHANGED callVars
    /\ UNCHANGED dbVars
    /\ UNCHANGED <<questions, engine, parse_case, routeVars, warned, dattempt, dsleepFor>>
    /\ UNCHANGED taskVars

\* lines 316-319: the POST failed (a transport error, or raise_for_status on
\* a non-2xx answer) and attempts remain: sleep RETRY_DELAY
PostFailsRetry ==
    /\ pc = "deliver"
    /\ DeliveryRetriesLeft(dattempt)
    /\ posts' = posts + 1
    /\ posted_body' = JsonBody(final_payload)
    /\ \E failure \in PostFailures : callback_log' = Append(callback_log, failure)
    /\ dsleepFor' = DeliverySleep(dattempt)
    /\ pc' = "dsleep"
    /\ UNCHANGED callVars
    /\ UNCHANGED dbVars
    /\ UNCHANGED <<questions, engine, parse_case, routeVars, final_payload, warned,
                   webhook_success, dattempt>>
    /\ UNCHANGED taskVars

\* the sleep of line 319 ends; line 304 takes the next attempt
DeliveryWake ==
    /\ pc = "dsleep"
    /\ dattempt' = dattempt + 1
    /\ dsleepFor' = 0
    /\ pc' = "deliver"
    /\ UNCHANGED callVars
    /\ UNCHANGED dbVars
    /\ UNCHANGED <<questions, engine, parse_case, routeVars, final_payload, warned,
                   webhook_success, posts,
                   posted_body, callback_log>>
    /\ UNCHANGED taskVars

\* lines 316-322: the last POST failed: webhook_sent = False, return
PostFailsLast ==
    /\ pc = "deliver"
    /\ ~DeliveryRetriesLeft(dattempt)
    /\ posts' = posts + 1
    /\ posted_body' = JsonBody(final_payload)
    /\ \E failure \in PostFailures : callback_log' = Append(callback_log, failure)
    /\ final_payload' = WithWebhookSent(final_payload, webhook_success)
    /\ pc' = "returned"
    /\ UNCHANGED callVars
    /\ UNCHANGED dbVars
    /\ UNCHANGED <<questions, engine, parse_case, routeVars, warned, webhook_success, dattempt,
                   dsleepFor>>
    /\ UNCHANGED taskVars

(***************************************************************************)
(* The routes POST /grade and POST /grade/sync (lines 325-365)              *)
(***************************************************************************)
\* lines 332 and 360: HTTPException(status_code=400, detail=...)
BadRequest == [status_code |-> 400, detail |-> "No questions provided"]

\* Mutant: the acknowledgment carries a results list
AcceptedWithResults(qs) ==
    [status_code |-> 202,
     content |-> [status |-> "accepted", questions_received |-> Len(qs), results |-> <<>>]]

\* lines 343-350 (the message text is left out)
Accepted(qs) ==
    [status_code |-> 202,
     content |-> [status |-> "accepted", questions_received |-> Len(qs)]]

\* line 365: the returned dict becomes the body of a 200 response
Ok(payload) == [status_code |-> 200, content |-> payload]

\* Mutant: the emptiness test never rejects
NotQuestionsNever(qs) == FALSE

\* lines 331 and 359: "not questions" is true of the empty list only
NotQuestions(qs) == Len(qs) = 0

\* lines 331-332: "if not questions" on POST /grade
GradeReject ==
    /\ pc = "received"
    /\ handler = "/grade"
    /\ NotQuestions(questions)
    /\ response' = BadRequest
    /\ pc' = "rejected"
    /\ UNCHANGED callVars
    /\ UNCHANGED dbVars
    /\ UNCHANGED <<questions, engine, parse_case, handler, background_tasks>>
    /\ UNCHANGED taskVars
    /\ UNCHANGED <<final_payload, warned, webhook_success, dattempt, dsleepFor, posts, posted_body,
                   callback_log>>

\* lines 334-350: add_task, then the 202 response
GradeAccept ==
    /\ pc = "received"
    /\ handler = "/grade"
    /\ ~NotQuestions(questions)
    /\ background_tasks' = background_tasks + 1
    /\ response' = Accepted(questions)
    /\ pc' = "accepted"
    /\ UNCHANGED callVars
    /\ UNCHANGED dbVars
    /\ UNCHANGED <<questions, engine, parse_case, handler>>
    /\ UNCHANGED taskVars
    /\ UNCHANGED <<final_payload, warned, webhook_success, dattempt, dsleepFor, posts, posted_body,
                   callback_log>>

\* BackgroundTasks: the added run starts once the response has been sent
\* (lines 223-248 of process_all_questions, up to gather)
BackgroundRun ==
    /\ pc = "accepted"
    /\ pc' = "gather"
    /\ UNCHANGED callVars
    /\ UNCHANGED dbVars
    /\ UNCHANGED <<questions, engine, parse_case, routeVars>>
    /\ UNCHANGED taskVars
    /\ UNCHANGED <<final_payload, warned, webhook_success, dattempt, dsleepFor, posts, posted_body,
                   callback_log>>

\* lines 359-360: "if not questions" on POST /grade/sync
SyncReject ==
    /\ pc = "received"
    /\ handler = "/grade/sync"
    /\ NotQuestions(questions)
    /\ response' = BadRequest
    /\ pc' = "rejected"
    /\ UNCHANGED callVars
    /\ UNCHANGED dbVars
    /\ UNCHANGED <<questions, engine, parse_case, handler, background_tasks>>
    /\ UNCHANGED taskVars
    /\ UNCHANGED <<final_payload, warned, webhook_success, dattempt, dsleepFor, posts, posted_body,
                   callback_log>>

\* line 364: await process_all_questions(questions, FINAL_WEBHOOK_URL)
SyncCall ==
    /\ pc = "received"
    /\ handler = "/grade/sync"
    /\ ~NotQuestions(questions)
    /\ pc' = "gather"
    /\ UNCHANGED callVars
    /\ UNCHANGED dbVars
    /\ UNCHANGED <<questions, engine, parse_case, routeVars>>
    /\ UNCHANGED taskVars
    /\ UNCHANGED <<final_payload, warned, webhook_success, dattempt, dsleepFor, posts, posted_body,
                   callback_log>>

\* line 365: return result
SyncReturn ==
    /\ pc = "returned"
    /\ handler = "/grade/sync"
    /\ response' = Ok(final_payload)
    /\ pc' = "responded"
    /\ UNCHANGED callVars
    /\ UNCHANGED dbVars
    /\ UNCHANGED <<questions, engine, parse_case, handler, background_tasks>>
    /\ UNCHANGED taskVars
    /\ UNCHANGED <<final_payload, warned, webhook_success, dattempt, dsleepFor, posts, posted_body,
                   callback_log>>

Next ==
    \/ \E i \in Tasks : Acquire(i)
    \/ \E i \in Tasks : AttemptSucceeds(i)
    \/ \E i \in Tasks : AttemptFailsRetry(i)
    \/ \E i \in Tasks : AttemptFailsLast(i)
    \/ \E i \in Tasks : Wake(i)
    \/ Collect
    \/ PostSucceeds
    \/ PostFailsRetry
    \/ DeliveryWake
    \/ PostFailsLast

Spec == Init /\ [][Next]_vars

SpecGate == InitGate /\ [][Next]_vars

SpecExample == InitExample /\ [][Next]_vars

\* The same program in an environment where the except block of a task can
\* itself raise: small batches with every kind of order key (SpecFault),
\* and a batch larger than the semaphore (SpecGateFault)
NextFault == Next \/ \E i \in Tasks : TaskRaises(i)

SpecFault == InitFault /\ [][NextFault]_vars

SpecGateFault == InitGateFault /\ [][NextFault]_vars

\* Non-empty batches, with an engine that raises, runs past REQUEST_TIMEOUT
\* or answers, under the assumption that nothing that can
\* happen is put off forever: an attempt that was started ends (by a return,
\* an exception or the REQUEST_TIMEOUT cut-off), a sleep ends, a POST ends,
\* and the event loop resumes a coroutine that can go on.
SpecLive == InitLive /\ [][Next]_vars /\ WF_vars(Next)

\* Decodable objects with any of the four fields missing, for questions that
\* declare points_possible 5 or 2 or none
SpecDefaults == InitDefaults /\ [][Next]_vars

SpecAnswers == InitAnswers /\ [][Next]_vars

\* One request to a route, from its arrival to the end of the work it starts
NextRoute ==
    \/ GradeReject
    \/ GradeAccept
    \/ BackgroundRun
    \/ SyncReject
    \/ SyncCall
    \/ SyncReturn
    \/ Next

SpecRoute == InitRoute /\ [][NextRoute]_vars

(***************************************************************************)
(* parse_agent_response on its own (lines 183-220): an object text, prose   *)
(* before and after it, and the two calls parse_agent_response(object) and  *)
(* parse_agent_response(before + object + after)                            *)
(***************************************************************************)
\* Object texts json.loads accepts: the complete object, an object with one
\* string member, the empty object, an object with inner whitespace, an
\* object whose points_earned is no number
ObjectTexts ==
    {T_full,
     <<LB, Str("points_earned", "1"), RB>>,
     T_empty,
     <<LB, WS, Num("points_earned", 2), WS, Str("feedback", "Oikein"), RB>>,
     T_badnum}

\* Prose: nothing, words, words between blanks, and prose that has braces
\* of its own (an opening one, a closing one, a pair)
ProseTexts ==
    {<<>>, <<W, W>>, <<WS, W, WS>>, <<W, LB, W>>, <<W, RB, WS>>, <<W, LB, W, RB, W>>}

ParseOrders == {0, 7}

InitParse ==
    /\ \E b \in ProseTexts, o \in ObjectTexts, a \in ProseTexts, n \in ParseOrders :
          parse_case = [before |-> b, object |-> o, after |-> a, order |-> n,
                        bare |-> NoParse, wrapped |-> NoParse]
    /\ questions = <<>>
    /\ engine = {}
    /\ handler = "direct"
    /\ pc = "parse"
    /\ semaphore = MAX_PARALLEL_TASKS
    /\ st = <<>>
    /\ attempt = <<>>
    /\ sleepFor = <<>>
    /\ engine_input = <<>>
    /\ lastResult = <<>>
    /\ results = <<>>
    /\ final_payload = NoPayload
    /\ warned = FALSE
    /\ webhook_success = FALSE
    /\ dattempt = 0
    /\ dsleepFor = 0
    /\ posts = 0
    /\ posted_body = NoPayload
    /\ callback_log = <<>>
    /\ background_tasks = 0
    /\ response = NoResponse
    /\ gates = <<>>
    /\ batch_st = <<>>
    /\ DbUnused

\* parse_agent_response(object, order)
ParseBare ==
    /\ pc = "parse"
    /\ parse_case.bare = NoParse
    /\ parse_case' = [parse_case EXCEPT
                        !.bare = parse_agent_response(parse_case.object, parse_case.order)]
    /\ UNCHANGED callVars
    /\ UNCHANGED dbVars
    /\ UNCHANGED <<questions, engine, routeVars>>
    /\ UNCHANGED taskVars
    /\ UNCHANGED deliveryVars

\* parse_agent_response(before + object + after, order)
ParseWrapped ==
    /\ pc = "parse"
    /\ parse_case.wrapped = NoParse
    /\ parse_case' = [parse_case EXCEPT
                        !.wrapped = parse_agent_response(
                            parse_case.before \o parse_case.object \o parse_case.after,
                            parse_case.order)]
    /\ UNCHANGED callVars
    /\ UNCHANGED dbVars
    /\ UNCHANGED <<questions, engine, routeVars>>
    /\ UNCHANGED taskVars
    /\ UNCHANGED deliveryVars

NextParse == ParseBare \/ ParseWrapped

SpecParse == InitParse /\ [][NextParse]_vars

(***************************************************************************)
(* Two calls of process_all_questions at the same time (two requests to    *)
(* POST /grade, lines 325-350: each adds its own run to the event loop).    *)
(* Each call makes its semaphore at line 239, and its tasks take the steps  *)
(* of grade_single_question as far as the semaphore is concerned: acquire,  *)
(* end an attempt and back off, wake, return.                               *)
(***************************************************************************)
Calls == {"A", "B"}

\* Call A grades a batch larger than the semaphore, call B a batch of any
\* size
CallSizes ==
    {[c \in Calls |-> IF c = "A" THEN a ELSE b] :
        a \in (MAX_PARALLEL_TASKS + 1)..(MAX_PARALLEL_TASKS + MaxExtra),
        b \in (1..MaxN) \cup ((MAX_PARALLEL_TASKS + 1)..(MAX_PARALLEL_TASKS + MaxExtra))}

\* Mutant: one semaphore at module level, shared by all the calls
GateOfShared(c) == "A"

\* lines 239 and 243: the semaphore a call hands to its tasks is the one it
\* made itself
GateOf(c) == c

InitCalls ==
    /\ \E size \in CallSizes : batch_st = [c \in Calls |-> [i \in 1..size[c] |-> "waiting"]]
    /\ gates = [c \in Calls |-> MAX_PARALLEL_TASKS]
    /\ DbUnused
    /\ questions = <<>>
    /\ engine = {}
    /\ handler = "/grade"
    /\ pc = "calls"
    /\ semaphore = MAX_PARALLEL_TASKS
    /\ st = <<>>
    /\ attempt = <<>>
    /\ sleepFor = <<>>
    /\ engine_input = <<>>
    /\ lastResult = <<>>
    /\ results = <<>>
    /\ final_payload = NoPayload
    /\ warned = FALSE
    /\ webhook_success = FALSE
    /\ dattempt = 0
    /\ dsleepFor = 0
    /\ posts = 0
    /\ posted_body = NoPayload
    /\ callback_log = <<>>
    /\ background_tasks = 0
    /\ response = NoResponse
    /\ parse_case = NoParseCase

otherVars ==
    <<questions, engine, parse_case, handler, background_tasks, response, pc, final_payload,
      warned, webhook_success, dattempt, dsleepFor, posts, posted_body, callback_log,
      exam_requests, senders, view, serial, exams, submissions, grading_response>>

\* line 80, for task i of call c (admitted in list order, as in Acquire)
CallAcquire(c, i) ==
    /\ pc = "calls"
    /\ batch_st[c][i] = "waiting"
    /\ \A j \in 1..(i - 1) : batch_st[c][j] # "waiting"
    /\ CanAcquire(gates[GateOf(c)])
    /\ gates' = [gates EXCEPT ![GateOf(c)] = @ - 1]
    /\ batch_st' = [batch_st EXCEPT ![c][i] = "inflight"]
    /\ UNCHANGED otherVars
    /\ UNCHANGED taskVars

\* lines 129-133: an attempt of the task failed and it backs off
CallAttemptFailsRetry(c, i) ==
    /\ pc = "calls"
    /\ batch_st[c][i] = "inflight"
    /\ gates' = [gates EXCEPT ![GateOf(c)] = DuringBackoff(@)]
    /\ batch_st' = [batch_st EXCEPT ![c][i] = "sleeping"]
    /\ UNCHANGED otherVars
    /\ UNCHANGED taskVars

\* the sleep of line 133 ends
CallWake(c, i) ==
    /\ pc = "calls"
    /\ batch_st[c][i] = "sleeping"
    /\ batch_st' = [batch_st EXCEPT ![c][i] = "inflight"]
    /\ UNCHANGED gates
    /\ UNCHANGED otherVars
    /\ UNCHANGED taskVars

\* lines 127 and 136-145: the task returns and leaves "async with"
CallTaskReturns(c, i) ==
    /\ pc = "calls"
    /\ batch_st[c][i] = "inflight"
    /\ gates' = [gates EXCEPT ![GateOf(c)] = Release(@)]
    /\ batch_st' = [batch_st EXCEPT ![c][i] = "done"]
    /\ UNCHANGED otherVars
    /\ UNCHANGED taskVars

NextCalls ==
    \/ \E c \in Calls : \E i \in DOMAIN batch_st[c] : CallAcquire(c, i)
    \/ \E c \in Calls : \E i \in DOMAIN batch_st[c] : CallAttemptFailsRetry(c, i)
    \/ \E c \in Calls : \E i \in DOMAIN batch_st[c] : CallWake(c, i)
    \/ \E c \in Calls : \E i \in DOMAIN batch_st[c] : CallTaskReturns(c, i)

SpecCalls == InitCalls /\ [][NextCalls]_vars

(***************************************************************************)
(* main/views.py: the exam requests (lines 602-834).  A row of ExamRequest  *)
(* is [status, error_message, exam]; request_id is its position, exam is    *)
(* the id of its Exam or 0 for NULL.  The clock fields are left out.        *)
(***************************************************************************)
MaxRequests == 2
MaxExams == 2

gradingServerVars ==
    <<questions, engine, parse_case, taskVars, deliveryVars, routeVars, callVars>>

\* The views are called on a database without rows; the grading server's
\* variables are not used
InitViews(one_at_a_time) ==
    /\ EmptyDatabase
    /\ serial = one_at_a_time
    /\ pc = "views"
    /\ questions = <<>>
    /\ engine = {}
    /\ handler = "direct"
    /\ semaphore = MAX_PARALLEL_TASKS
    /\ st = <<>>
    /\ attempt = <<>>
    /\ sleepFor = <<>>
    /\ engine_input = <<>>
    /\ lastResult = <<>>
    /\ results = <<>>
    /\ final_payload = NoPayload
    /\ warned = FALSE
    /\ webhook_success = FALSE
    /\ dattempt = 0
    /\ dsleepFor = 0
    /\ posts = 0
    /\ posted_body = NoPayload
    /\ callback_log = <<>>
    /\ background_tasks = 0
    /\ response = NoResponse
    /\ parse_case = NoParseCase
    /\ gates = <<>>
    /\ batch_st = <<>>

\* A view starts only when no other view call is in progress, if the server
\* runs them one at a time
ViewsFree == serial => view.pc = "idle"

\* Mutant: the earlier requests are left as they are
CancelOpenNone(rows, msg) == rows

\* lines 635 and 828-831: filter(status__in=['pending', 'processing'])
\* .update(status='error', error_message=msg)
CancelOpen(rows, msg) ==
    [r \in 1..Len(rows) |->
        IF rows[r].status \in {"pending", "processing"}
        THEN [rows[r] EXCEPT !.status = "error", !.error_message = msg]
        ELSE rows[r]]

\* lines 638-642
NewRequest == [status |-> "processing", error_message |-> None, exam |-> 0]

\* lines 656-661: the thread that sends the request to the AI service
NewSender == [pc |-> "post", delivered |-> FALSE, loaded |-> <<>>]

\* request_exam with a subject (lines 621-667); without one, or with a body
\* that is no JSON, it returns an error and changes nothing
request_exam ==
    /\ pc = "views"
    /\ ViewsFree
    /\ Len(exam_requests) < MaxRequests
    /\ exam_requests' = Append(CancelOpen(exam_requests, "Cancelled"), NewRequest)
    /\ senders' = Append(senders, NewSender)
    /\ UNCHANGED <<view, serial, exams, submissions, grading_response>>
    /\ UNCHANGED gradingServerVars

\* cancel_exam_request (lines 825-834)
cancel_exam_request ==
    /\ pc = "views"
    /\ ViewsFree
    /\ exam_requests' = CancelOpen(exam_requests, "Cancelled by user")
    /\ UNCHANGED <<senders, view, serial, exams, submissions, grading_response>>
    /\ UNCHANGED gradingServerVars

(***************************************************************************)
(* _call_exam_webhook_async (lines 602-616), one thread per request.  The   *)
(* POST of line 605 reaches the AI service or not; it raises when the       *)
(* connection fails and also when the answer does not come within the 30 s  *)
(* timeout, which can be after the service has got the request.             *)
(***************************************************************************)
\* line 605: the AI service has received the request
SenderDelivers(r) ==
    /\ pc = "views"
    /\ senders[r].pc = "post"
    /\ ~senders[r].delivered
    /\ senders' = [senders EXCEPT ![r].delivered = TRUE]
    /\ UNCHANGED <<exam_requests, view, serial, exams, submissions, grading_response>>
    /\ UNCHANGED gradingServerVars

\* lines 605-606: the POST returned
SenderPostReturns(r) ==
    /\ pc = "views"
    /\ senders[r].pc = "post"
    /\ senders[r].delivered
    /\ senders' = [senders EXCEPT ![r].pc = "done"]
    /\ UNCHANGED <<exam_requests, view, serial, exams, submissions, grading_response>>
    /\ UNCHANGED gradingServerVars

\* lines 607-608: the POST raised
SenderPostRaises(r) ==
    /\ pc = "views"
    /\ senders[r].pc = "post"
    /\ senders' = [senders EXCEPT ![r].pc = "except"]
    /\ UNCHANGED <<exam_requests, view, serial, exams, submissions, grading_response>>
    /\ UNCHANGED gradingServerVars

\* line 611: ExamRequest.objects.get(request_id=request_id)
SenderGet(r) ==
    /\ pc = "views"
    /\ senders[r].pc = "except"
    /\ senders' = [senders EXCEPT ![r].pc = "loaded", ![r].loaded = exam_requests[r]]
    /\ UNCHANGED <<exam_requests, view, serial, exams, submissions, grading_response>>
    /\ UNCHANGED gradingServerVars

\* line 613
SENDER_ERROR == "Failed to contact AI service"

\* lines 612-614: status and error_message are set on the object that was
\* loaded, and save() writes all its fields over the row
SenderMarks(row, loaded) == [loaded EXCEPT !.status = "error", !.error_message = SENDER_ERROR]

SenderSave(r) ==
    /\ pc = "views"
    /\ senders[r].pc = "loaded"
    /\ exam_requests' =
          [exam_requests EXCEPT ![r] = SenderMarks(exam_requests[r], senders[r].loaded)]
    /\ senders' = [senders EXCEPT ![r].pc = "done", ![r].loaded = <<>>]
    /\ UNCHANGED <<view, serial, exams, submissions, grading_response>>
    /\ UNCHANGED gradingServerVars

(***************************************************************************)
(* exam_webhook (lines 679-796): the AI service posts what it made for a    *)
(* request it has received.  The call loads the row (line 682), and writes  *)
(* it back with save() after it has looked at the body and built the exam.  *)
(***************************************************************************)
\* Bodies that are rejected before anything is built: lines 688, 697, 707, 734
RejectedBodies == {"empty", "invalid_json", "error_answer", "invalid_format"}
\* A body with questions and config: a good one, one whose config makes
\* Exam.objects.create raise ValueError (an exam_time that is no number),
\* and one whose questions are no dicts (AttributeError at line 763)
ExamBodies == {"exam", "bad_config", "bad_question"}

\* The bodies the AI service posts in the model: the four rejected ones are
\* handled alike, one of them stands for all
PostedBodies == {"empty"} \cup ExamBodies

ErrorMessageFor(body) ==
    CASE body = "empty" -> "Empty request body"
      [] body = "invalid_json" -> "Invalid JSON"
      [] body = "error_answer" -> "Error: <the answer>"
      [] body = "invalid_format" -> "Invalid format"
      [] OTHER -> "Invalid exam data"

\* Mutant: the old exams stay active
DeactivateNone(rows) == rows

\* lines 87 and 749: Exam.objects.filter(is_active=True).update(is_active=False)
DeactivateAll(rows) == [e \in 1..Len(rows) |-> [rows[e] EXCEPT !.is_active = FALSE]]

\* lines 91-96 and 752-757
NewExam == [is_active |-> TRUE]

\* line 682
ExamWebhookGet(r, body) ==
    /\ pc = "views"
    /\ view.pc = "idle"
    /\ senders[r].delivered
    /\ body \in {"exam", "bad_question"} => Len(exams) < MaxExams
    /\ view' = [pc |-> "loaded", request_id |-> r, body |-> body,
                loaded |-> exam_requests[r], exam |-> 0]
    /\ UNCHANGED <<exam_requests, senders, serial, exams, submissions, grading_response>>
    /\ UNCHANGED gradingServerVars

\* lines 748-775: the old exams are deactivated and the exam is created with
\* its questions.  A ValueError is caught at line 786; any other exception
\* ends the call at line 794 with the row as it is.
ExamWebhookBuilds ==
    /\ pc = "views"
    /\ view.pc = "loaded"
    /\ view.body \in ExamBodies
    /\ exams' = IF view.body = "bad_config" THEN DeactivateAll(exams)
                ELSE Append(DeactivateAll(exams), NewExam)
    /\ view' = CASE view.body = "exam" -> [view EXCEPT !.pc = "built", !.exam = Len(exams) + 1]
                 [] view.body = "bad_config" -> [view EXCEPT !.pc = "invalid"]
                 [] OTHER -> NoView
    /\ UNCHANGED <<exam_requests, senders, serial, submissions, grading_response>>
    /\ UNCHANGED gradingServerVars

\* lines 689-692, 698-701, 708-711, 735-738, 787-790
ExamWebhookError(row, loaded, msg) == [loaded EXCEPT !.status = "error", !.error_message = msg]

ExamWebhookRejects ==
    /\ pc = "views"
    /\ \/ view.pc = "loaded" /\ view.body \in RejectedBodies
       \/ view.pc = "invalid"
    /\ exam_requests' =
          [exam_requests EXCEPT ![view.request_id] =
              ExamWebhookError(exam_requests[view.request_id], view.loaded,
                               ErrorMessageFor(view.body))]
    /\ view' = NoView
    /\ UNCHANGED <<senders, serial, exams, submissions, grading_response>>
    /\ UNCHANGED gradingServerVars

\* lines 778-781
ExamWebhookCompletes ==
    /\ pc = "views"
    /\ view.pc = "built"
    /\ exam_requests' =
          [exam_requests EXCEPT ![view.request_id] =
              [view.loaded EXCEPT !.status = "completed", !.exam = view.exam]]
    /\ view' = NoView
    /\ UNCHANGED <<senders, serial, exams, submissions, grading_response>>
    /\ UNCHANGED gradingServerVars

NextRequests ==
    \/ request_exam
    \/ cancel_exam_request
    \/ \E r \in DOMAIN senders : SenderDelivers(r)
    \/ \E r \in DOMAIN senders : SenderPostReturns(r)
    \/ \E r \in DOMAIN senders : SenderPostRaises(r)
    \/ \E r \in DOMAIN senders : SenderGet(r)
    \/ \E r \in DOMAIN senders : SenderSave(r)
    \/ \E r \in DOMAIN senders : \E body \in PostedBodies : ExamWebhookGet(r, body)
    \/ ExamWebhookBuilds
    \/ ExamWebhookRejects
    \/ ExamWebhookCompletes

\* The views of the exam requests, called by concurrent clients
SpecRequests == InitViews(FALSE) /\ [][NextRequests]_vars

\* ... and called one at a time (the sender threads still run on their own)
SpecRequestsSerial == InitViews(TRUE) /\ [][NextRequests]_vars

(***************************************************************************)
(* webhook (lines 49-168) and end_exam (lines 283-364), as they run when    *)
(* the server handles one call at a time.                                   *)
(***************************************************************************)
MaxSubmissions == 2

\* A database NULL in a numeric column
DbNull == Absent

\* lines 342-347, with the defaults of the columns (models.py lines 70-73)
NewSubmission ==
    [is_graded |-> FALSE, total_points_earned |-> DbNull, total_points_possible |-> DbNull,
     grades |-> <<>>]

\* A body that passes lines 55-84: either every question is valid, or
\* Exam.objects.create raises, or a question is deleted with the exam
\* (lines 104, 125)
WebhookBodies == {"exam", "bad_config", "bad_question"}

\* webhook with such a body.  Lines 86-87 deactivate the active exams; the new
\* exam of lines 91-96 is active and stays, unless create raised (line 160)
\* or exam.delete() removed it again (lines 104, 125).  A body that fails
\* lines 55-84 is answered with 400 and changes nothing.
webhook(body) ==
    /\ pc = "views"
    /\ ViewsFree
    /\ body = "exam" => Len(exams) < MaxExams
    /\ exams' = IF body = "exam" THEN Append(DeactivateAll(exams), NewExam)
                ELSE DeactivateAll(exams)
    /\ UNCHANGED <<exam_requests, senders, view, serial, submissions, grading_response>>
    /\ UNCHANGED gradingServerVars

\* end_exam of an existing exam: the submission is stored (lines 342-347) and
\* the exam is deactivated (lines 361-362).  An unknown exam_id is a 404.
end_exam(e) ==
    /\ pc = "views"
    /\ ViewsFree
    /\ e \in DOMAIN exams
    /\ Len(submissions) < MaxSubmissions
    /\ submissions' = Append(submissions, NewSubmission)
    /\ exams' = [exams EXCEPT ![e].is_active = FALSE]
    /\ UNCHANGED <<exam_requests, senders, view, serial, grading_response>>
    /\ UNCHANGED gradingServerVars

NextExams ==
    \/ \E body \in WebhookBodies : webhook(body)
    \/ \E e \in DOMAIN exams : end_exam(e)
    \/ request_exam
    \/ \E r \in DOMAIN senders : SenderDelivers(r)
    \/ \E r \in DOMAIN senders : SenderPostReturns(r)
    \/ \E r \in DOMAIN senders : \E body \in PostedBodies : ExamWebhookGet(r, body)
    \/ ExamWebhookBuilds
    \/ ExamWebhookRejects
    \/ ExamWebhookCompletes

\* The views that create and end exams, called one at a time
SpecExams == InitViews(TRUE) /\ [][NextExams]_vars

(***************************************************************************)
(* grading_webhook (lines 861-944): the grades of the grading system are    *)
(* applied to the latest submission.                                        *)
(***************************************************************************)
MaxGrades == 2

\* Grade entries the grading system posts: between them every key is once
\* present and once missing
GradeEntries ==
    { [question_id |-> 1, order |-> Absent, points_earned |-> Absent, points_possible |-> 3],
      [question_id |-> Absent, order |-> 2, points_earned |-> 2, points_possible |-> Absent] }

\* The lists of at most MaxGrades entries
GradeLists == UNION {[1..n -> GradeEntries] : n \in 0..MaxGrades}

\* lines 898-901 and 908-918: the QuestionGrade row of an entry
GradeRow(grade_entry) ==
    [question_id |-> Get(grade_entry.question_id, 0),
     order |-> Get(grade_entry.order, Get(grade_entry.question_id, 0)),
     points_earned |-> Get(grade_entry.points_earned, 0),
     points_possible |-> Get(grade_entry.points_possible, 0)]

\* Mutant: the grades of an earlier call are kept
KeepGrades(grades) == grades

\* line 891: QuestionGrade.objects.filter(submission=latest_submission).delete()
ClearGrades(grades) == <<>>

\* lines 897-918: the rows are created one by one; unique_together
\* (models.py line 103) makes create raise for an order the submission
\* already has, and the rows created before it stay
RECURSIVE CreateGrades(_, _)
CreateGrades(grades, grades_data) ==
    IF grades_data = <<>> THEN grades
    ELSE IF \E k \in 1..Len(grades) : grades[k].order = GradeRow(Head(grades_data)).order
         THEN grades
         ELSE CreateGrades(Append(grades, GradeRow(Head(grades_data))), Tail(grades_data))

\* lines 920-921
RECURSIVE TotalEarned(_)
TotalEarned(grades_data) ==
    IF grades_data = <<>> THEN 0
    ELSE Get(Head(grades_data).points_earned, 0) + TotalEarned(Tail(grades_data))

RECURSIVE TotalPossible(_)
TotalPossible(grades_data) ==
    IF grades_data = <<>> THEN 0
    ELSE Get(Head(grades_data).points_possible, 0) + TotalPossible(Tail(grades_data))

\* line 885: ExamSubmission.objects.order_by('-submitted_at').first()
LatestSubmission == Len(submissions)

\* grading_webhook with a list.  A body that is no list is answered with 400
\* (lines 873-881) and changes nothing.
grading_webhook(grades_data) ==
    /\ pc = "views"
    /\ ViewsFree
    /\ IF submissions = <<>>
       THEN /\ grading_response' = [NoGradingResponse EXCEPT !.status_code = 404]
            /\ UNCHANGED submissions
       ELSE LET latest == submissions[LatestSubmission]
                cleared == ClearGrades(latest.grades)
                created == CreateGrades(cleared, grades_data)
            IN  IF Len(created) = Len(cleared) + Len(grades_data)
                THEN \* lines 926-938
                     /\ submissions' =
                           [submissions EXCEPT ![LatestSubmission] =
                               [is_graded |-> TRUE,
                                total_points_earned |-> TotalEarned(grades_data),
                                total_points_possible |-> TotalPossible(grades_data),
                                grades |-> created]]
                     /\ grading_response' =
                           [status_code |-> 200, posted |-> grades_data,
                            submission_id |-> LatestSubmission,
                            deleted |-> Len(latest.grades)]
                ELSE \* lines 942-944: create raised, the submission is not saved
                     /\ submissions' = [submissions EXCEPT ![LatestSubmission].grades = created]
                     /\ grading_response' = [NoGradingResponse EXCEPT !.status_code = 500]
    /\ UNCHANGED <<exam_requests, senders, view, serial, exams>>
    /\ UNCHANGED gradingServerVars

NextGrading ==
    \/ webhook("exam")
    \/ \E e \in DOMAIN exams : end_exam(e)
    \/ \E grades_data \in GradeLists : grading_webhook(grades_data)

\* An exam is created, taken and graded, one call at a time
SpecGrading == InitViews(TRUE) /\ [][NextGrading]_vars

(***************************************************************************)
(* Helpers of the properties                                                *)
(***************************************************************************)
Built == pc # "gather"
Emitted == final_payload.results
Bijections(n) == {f \in [1..n -> 1..n] : \A a, b \in 1..n : a # b => f[a] # f[b]}
Finished(i) == pc = "gather" /\ st[i] = "done"
EngineFailed(r) == r.kind \in {"raise", "timeout"}
Malformed(r) == r = Text(T_nospan) \/ r = Text(T_undec)

(***************************************************************************)
(* C1.  Once the payload is built its results list has exactly N outcomes,  *)
(* one for each task of the batch: the outcomes are the N values gather     *)
(* collected, each exactly once (none dropped, none duplicated).            *)
(***************************************************************************)
C1_ExactlyNOutcomes ==
    Built =>
        /\ Len(Emitted) = N
        /\ \E f \in Bijections(N) : \A i \in Tasks : Emitted[f[i]] = results[i].val

\* a returned batch of two with one error outcome and one success outcome
C1_Witness ==
    /\ pc = "returned"
    /\ N = 2
    /\ Len(Emitted) = 2
    /\ \E i, j \in Tasks :
          results[i].val.status = "error" /\ results[j].val.status = "success"

C3_SortedByOrder ==
    Built =>
        /\ \A k, l \in 1..Len(Emitted) : k < l => Emitted[k].order <= Emitted[l].order
        /\ (\E f \in Bijections(N) : \A i \in Tasks : questions[i].order = f[i] - 1)
              => [k \in 1..Len(Emitted) |-> Emitted[k].order] = [k \in 1..N |-> k - 1]

\* the batch submitted as orders 1, 0 came back as 0, 1
C3_Witness ==
    /\ pc = "returned"
    /\ N = 2
    /\ questions[1].order = 1
    /\ questions[2].order = 0
    /\ Emitted[1].order = 0
    /\ Emitted[2].order = 1

(***************************************************************************)
(* What the code is expected to return for question q when r is the result  *)
(* of the attempt the task ended on (worked out by hand from lines 121-145  *)
(* and 183-220, for the results of EngineResults).                          *)
(***************************************************************************)
DeclaredOrder(q) == IF q.order = Absent THEN 0 ELSE q.order
DeclaredPoints(q) == IF q.points_possible = Absent THEN 3 ELSE q.points_possible

Graded(q, pe, pp, fb, ca) ==
    [question_id |-> DeclaredOrder(q), order |-> DeclaredOrder(q), points_earned |-> pe,
     points_possible |-> pp, feedback |-> fb, correct_answer |-> ca,
     status |-> "success", error_message |-> None]

Failed(q, msg) ==
    [question_id |-> DeclaredOrder(q), order |-> DeclaredOrder(q), points_earned |-> 0,
     points_possible |-> DeclaredPoints(q),
     feedback |-> "Arvostelua ei voitu suorittaa teknisen virheen vuoksi.",
     correct_answer |-> "", status |-> "error", error_message |-> msg]

ExpectedOutcome(q, r) ==
    CASE r.kind = "raise" -> Failed(q, r.msg)
      [] r.kind = "timeout" -> Failed(q, "Timeout after 120s")
      [] r = Text(T_badnum) -> Failed(q, "ValueError: could not convert string to float")
      [] r = Text(T_full) -> Graded(q, 2, 5, "Oikein", "F=ma")
      [] r = Text(T_prose) -> Graded(q, 1, 3, "", "")
      [] OTHER -> Graded(q, 0, 3, "Vastauksen kasittelyssa tapahtui virhe.", "")

(***************************************************************************)
(* C4.  The order of a question is never reassigned.  A finished task's     *)
(* outcome carries its own question's order and the grade computed from the *)
(* engine's result for that same question; the emitted list holds, for      *)
(* every question, one outcome with that question's order and that task's   *)
(* points, feedback and status (so the emitted orders are the submitted     *)
(* orders, as multisets).  A question submitted without an order key counts *)
(* as carrying order 0, the default of line 78.                             *)
(***************************************************************************)
C4_OrderNeverReassigned ==
    /\ \A i \in Tasks :
          Finished(i) =>
              /\ lastResult[i].kind # "none"
              /\ results[i].val.order = DeclaredOrder(questions[i])
              /\ results[i].val = ExpectedOutcome(questions[i], lastResult[i])
    /\ Built =>
          \E f \in Bijections(N) : \A i \in Tasks :
              /\ Emitted[f[i]].order = DeclaredOrder(questions[i])
              /\ Emitted[f[i]].points_earned = results[i].val.points_earned
              /\ Emitted[f[i]].points_possible = results[i].val.points_possible
              /\ Emitted[f[i]].feedback = results[i].val.feedback
              /\ Emitted[f[i]].status = results[i].val.status
              /\ Emitted[f[i]].error_message = results[i].val.error_message

\* the batch with orders 1, 2 (no 0) came back with orders 1, 2: the graded
\* answer at 2 and the failure at 1
C4_Witness ==
    /\ pc = "returned"
    /\ N = 2
    /\ questions[1].order = 1
    /\ questions[2].order = 2
    /\ Emitted[1].order = 1
    /\ Emitted[1].status = "error"
    /\ Emitted[2].order = 2
    /\ Emitted[2].feedback = "Oikein"

(***************************************************************************)
(* C5.  At most MAX_PARALLEL_TASKS grading attempts are in flight (started  *)
(* and not yet returned, raised or timed out) in every reachable state,     *)
(* also for batches larger than MAX_PARALLEL_TASKS.                         *)
(***************************************************************************)
InFlight == {i \in Tasks : st[i] = "inflight"}

\* C5: never more than MAX_PARALLEL_TASKS attempts in flight
C5_AtMostMaxParallelInFlight == Cardinality(InFlight) <= MAX_PARALLEL_TASKS

\* the gate is full and a task of the batch is kept waiting
C5_Witness ==
    /\ N > MAX_PARALLEL_TASKS
    /\ Cardinality(InFlight) = MAX_PARALLEL_TASKS
    /\ \E i \in Tasks : st[i] = "waiting"

(***************************************************************************)
(* C6.  Isolation.  The outcome of question j is a function of question j   *)
(* and of the engine's results for j alone: a finished task j returned      *)
(* ExpectedOutcome of its own question and of its own last result, an error *)
(* outcome only after all MAX_RETRIES attempts of its own, and that outcome *)
(* is emitted unchanged; and no step of a task changes the state of another *)
(* task (none is aborted or cancelled by a sibling).  Two runs that differ  *)
(* only in the engine's behaviour for i therefore emit the same outcome     *)
(* for j.                                                                   *)
(***************************************************************************)
TaskView(j) ==
    <<st[j], attempt[j], sleepFor[j], engine_input[j], lastResult[j], results[j]>>

\* C6, the outcome of j depends on j alone
C6_OwnOutcome ==
    /\ \A j \in Tasks :
          Finished(j) =>
              /\ ~results[j].raised
              /\ lastResult[j].kind # "none"
              /\ results[j].val = ExpectedOutcome(questions[j], lastResult[j])
              /\ results[j].val.status = "error" => attempt[j] = MAX_RETRIES - 1
    /\ Built => \A j \in Tasks : \E k \in 1..Len(Emitted) : Emitted[k] = results[j].val

\* C6, a step of task i leaves every other task as it was
C6_NoInterference ==
    \A i, j \in Tasks :
        (i # j /\ pc' = "gather" /\ TaskView(i)' # TaskView(i)) => TaskView(j)' = TaskView(j)

\* C6: every task ends with its own outcome, and no task disturbs another
C6_Isolation == [](C6_OwnOutcome) /\ [][C6_NoInterference]_vars

\* question 1 failed every attempt while question 2, whose task was
\* running at the same time, was graded
C6_Witness ==
    /\ pc = "gather"
    /\ N = 2
    /\ st[1] = "done"
    /\ results[1].val.status = "error"
    /\ attempt[1] = MAX_RETRIES - 1
    /\ st[2] = "done"
    /\ results[2].val.status = "success"
    /\ results[2].val.points_earned = 2

(***************************************************************************)
(* C7.  A question whose MAX_RETRIES attempts all failed (the task ended on *)
(* its last attempt, and that attempt raised) has an outcome with status    *)
(* "error", points_earned 0 and the points_possible its question declares   *)
(* (3 when it declares none), and that outcome is the one emitted.          *)
(***************************************************************************)
AttemptRaised(r) == EngineFailed(r) \/ r = Text(T_badnum)

\* C7: the outcome after MAX_RETRIES failed attempts
C7_ExhaustedRetriesOutcome ==
    /\ \A i \in Tasks :
          (Finished(i) /\ attempt[i] = MAX_RETRIES - 1 /\ AttemptRaised(lastResult[i])) =>
              /\ results[i].val.status = "error"
              /\ results[i].val.points_earned = 0
              /\ results[i].val.points_possible = DeclaredPoints(questions[i])
    /\ Built =>
          \A i \in Tasks :
              results[i].val.status = "error" =>
                  /\ results[i].val.points_earned = 0
                  /\ results[i].val.points_possible = DeclaredPoints(questions[i])
                  /\ \E k \in 1..Len(Emitted) : Emitted[k] = results[i].val

\* both questions failed every attempt: the one that declares nothing is
\* emitted with points_possible 3, the one that declares 5 with 5
C7_Witness ==
    /\ pc = "returned"
    /\ N = 2
    /\ questions[1].order = 0
    /\ questions[2].order = 1
    /\ questions[1].points_possible = Absent
    /\ questions[2].points_possible = 5
    /\ Emitted[1].status = "error"
    /\ Emitted[1].points_possible = 3
    /\ Emitted[2].status = "error"
    /\ Emitted[2].points_possible = 5
    /\ Emitted[2].points_earned = 0

(***************************************************************************)
(* C8.  grade_single_question never raises and always returns an outcome:   *)
(* a task makes attempts 1..MAX_RETRIES at most, it ends on an attempt of   *)
(* its own, with status "success" exactly when that attempt did not raise,  *)
(* and with status "error" only on attempt MAX_RETRIES, the error_message   *)
(* being the message of that attempt's error; it never sleeps after attempt *)
(* MAX_RETRIES; and once it has returned it makes no further attempt.       *)
(***************************************************************************)
ErrorMessageOf(r) ==
    CASE r.kind = "raise" -> r.msg
      [] r.kind = "timeout" -> "Timeout after 120s"
      [] OTHER -> "ValueError: could not convert string to float"

\* C8, the states of the retry loop
C8_RetryLoop ==
    \A i \in Tasks :
        /\ attempt[i] \in 0..(MAX_RETRIES - 1)
        /\ ~results[i].raised
        /\ st[i] = "sleeping" => attempt[i] < MAX_RETRIES - 1
        /\ Finished(i) =>
              /\ lastResult[i].kind # "none"
              /\ results[i].val.status \in {"success", "error"}
              /\ results[i].val.status = "success" <=> ~AttemptRaised(lastResult[i])
              /\ results[i].val.status = "error" =>
                    /\ attempt[i] = MAX_RETRIES - 1
                    /\ results[i].val.error_message = ErrorMessageOf(lastResult[i])

\* C8, a task that returned stays as it is
C8_NoAttemptAfterReturn ==
    \A i \in Tasks :
        st[i] = "done" =>
            /\ st'[i] = "done"
            /\ results'[i] = results[i]
            /\ pc' = "gather" => (attempt'[i] = attempt[i] /\ lastResult'[i] = lastResult[i])

\* C8: the retry loop always ends with an outcome and then stops
C8_AlwaysReturnsOutcome == [](C8_RetryLoop) /\ [][C8_NoAttemptAfterReturn]_vars

\* a task returned the error outcome on its third attempt, which timed out
C8_Witness ==
    \E i \in Tasks :
        /\ Finished(i)
        /\ attempt[i] = MAX_RETRIES - 1
        /\ lastResult[i] = TimesOut
        /\ results[i].val.status = "error"
        /\ results[i].val.error_message = "Timeout after 120s"

(***************************************************************************)
(* C9.  As claimed: a response text with no "{".."}" span, or with a span   *)
(* that cannot be decoded, makes the attempt fail, so a task never ends     *)
(* with status "success" on such a text.                                    *)
(***************************************************************************)
C9_MalformedFailsAttempt ==
    \A i \in Tasks :
        (Finished(i) /\ Malformed(lastResult[i])) => results[i].val.status = "error"

(***************************************************************************)
(* C9 as amended.  A response text with no "{".."}" span, or with a span    *)
(* json.loads rejects, does not fail the attempt: parse_agent_response      *)
(* returns the default (points_earned 0, points_possible 3, the fixed       *)
(* feedback), the task returns it at once with status "success" and no      *)
(* error_message, and makes no retry for it (it is never backing off after  *)
(* such a text).                                                            *)
(***************************************************************************)
C9_MalformedIsDefaultSuccess ==
    \A i \in Tasks :
        Malformed(lastResult[i]) =>
            /\ st[i] = "done"
            /\ results[i].val.status = "success"
            /\ results[i].val.error_message = None
            /\ results[i].val.points_earned = 0
            /\ results[i].val.points_possible = 3
            /\ results[i].val.feedback = "Vastauksen kasittelyssa tapahtui virhe."
            /\ results[i].val.order = DeclaredOrder(questions[i])

\* one task ended on its first attempt with a text without braces, another
\* with braces around something that is no JSON
C9_Witness ==
    \E i, j \in Tasks :
        /\ Finished(i)
        /\ Finished(j)
        /\ attempt[i] = 0
        /\ lastResult[i] = Text(T_nospan)
        /\ lastResult[j] = Text(T_undec)
        /\ results[i].val.status = "success"
        /\ results[j].val.status = "success"

(***************************************************************************)
(* C10.  A timed-out attempt is handled as an attempt that raised any other *)
(* exception.  After either, the task is backing off for RETRY_DELAY times  *)
(* the attempt number with a further attempt to come, when attempts remain, *)
(* or has returned, on attempt MAX_RETRIES, the error outcome of its        *)
(* question with the exception's message.                                   *)
(***************************************************************************)
HandledAsFailure(i, msg) ==
    \/ /\ st[i] = "sleeping"
       /\ attempt[i] < MAX_RETRIES - 1
       /\ sleepFor[i] = RETRY_DELAY * (attempt[i] + 1)
       /\ ENABLED Wake(i)
    \/ /\ st[i] = "done"
       /\ attempt[i] = MAX_RETRIES - 1
       /\ results[i].val = Failed(questions[i], msg)

\* C10: a timeout and any other exception are handled alike
C10_TimeoutIsAFailure ==
    \A i \in Tasks :
        /\ lastResult[i].kind = "timeout" => HandledAsFailure(i, "Timeout after 120s")
        /\ lastResult[i].kind = "raise" => HandledAsFailure(i, lastResult[i].msg)

\* the second attempt of a task timed out and the task is backing off for
\* 2 * RETRY_DELAY before its third
C10_Witness ==
    \E i \in Tasks :
        /\ lastResult[i] = TimesOut
        /\ st[i] = "sleeping"
        /\ attempt[i] = 1
        /\ sleepFor[i] = 4

(***************************************************************************)
(* C11.  Delivery attempt count.  callback_log is what the callback         *)
(* endpoint answered, POST by POST.  When process_all_questions has         *)
(* returned, either the endpoint failed on its first k attempts             *)
(* (0 <= k < MAX_RETRIES) and then answered 2xx, exactly k+1 POSTs were     *)
(* made and webhook_sent is TRUE, or it failed MAX_RETRIES times, exactly   *)
(* MAX_RETRIES POSTs were made and webhook_sent is FALSE.  At every moment  *)
(* a 2xx answer is the last entry of the log: no POST follows a successful  *)
(* one.                                                                     *)
(***************************************************************************)
ProcessReturned == pc \in {"returned", "responded"}
FailuresBefore(log, k) == \A i \in 1..k : log[i] \in {"transport_error", "non_2xx"}

C11_DeliveryAttemptCount ==
    /\ \A i \in 1..(Len(callback_log) - 1) : callback_log[i] # "2xx"
    /\ ProcessReturned =>
          \/ \E k \in 0..(MAX_RETRIES - 1) :
                /\ Len(callback_log) = k + 1
                /\ FailuresBefore(callback_log, k)
                /\ callback_log[k + 1] = "2xx"
                /\ posts = k + 1
                /\ final_payload.webhook_sent = TRUE
          \/ /\ Len(callback_log) = MAX_RETRIES
             /\ FailuresBefore(callback_log, MAX_RETRIES)
             /\ posts = MAX_RETRIES
             /\ final_payload.webhook_sent = FALSE

\* The endpoint failed twice (once each way), then succeeded: 3 POSTs
C11_Witness ==
    /\ ProcessReturned
    /\ callback_log = <<"transport_error", "non_2xx", "2xx">>
    /\ posts = 3
    /\ final_payload.webhook_sent = TRUE

(***************************************************************************)
(* C12.  Delivery failure is data.  Once process_all_questions has          *)
(* returned, webhook_sent is TRUE exactly when some POST was answered 2xx.  *)
(* When MAX_RETRIES POSTs have all failed the function has returned its     *)
(* payload (it did not raise) with webhook_sent FALSE, and the response of  *)
(* POST /grade/sync is a 200 whose body has the results and the metadata    *)
(* that were delivered, with webhook_sent FALSE.                            *)
(***************************************************************************)
Got2xx == \E i \in 1..Len(callback_log) : callback_log[i] = "2xx"

C12_DeliveryFailureIsData ==
    /\ ProcessReturned => final_payload.webhook_sent = Got2xx
    /\ (posts = MAX_RETRIES /\ ~Got2xx) =>
          /\ ProcessReturned
          /\ final_payload.webhook_sent = FALSE
    /\ (handler = "/grade/sync" /\ pc = "responded") =>
          /\ response.status_code = 200
          /\ response.content.webhook_sent = Got2xx
          /\ response.content.results = posted_body.results
          /\ Len(response.content.results) = N
          /\ response.content.metadata = posted_body.metadata

\* POST /grade/sync has answered after three failed deliveries
C12_Witness ==
    /\ handler = "/grade/sync"
    /\ pc = "responded"
    /\ posts = MAX_RETRIES
    /\ ~Got2xx
    /\ response.status_code = 200
    /\ response.content.webhook_sent = FALSE
    /\ response.content.metadata.total_questions = N

(***************************************************************************)
(* C13.  The body of a POST to the callback URL.  As claimed: every body    *)
(* has the three top-level fields results, metadata and webhook_sent (a     *)
(* boolean).  The code sends final_payload before line 321 adds the key, so *)
(* this is refuted.                                                         *)
(***************************************************************************)
C13_BodyHasWebhookSent ==
    posts > 0 =>
        /\ DOMAIN posted_body = {"results", "metadata", "webhook_sent"}
        /\ posted_body.webhook_sent \in BOOLEAN

(***************************************************************************)
(* C13, as the code has it.  Every body POSTed to the callback URL has      *)
(* exactly the two top-level fields results (the N outcomes) and metadata;  *)
(* webhook_sent is never part of a POSTed body and exists only in the       *)
(* payload process_all_questions returns.                                   *)
(***************************************************************************)
C13_BodyIsResultsAndMetadata ==
    /\ posts > 0 =>
          /\ DOMAIN posted_body = {"results", "metadata"}
          /\ Len(posted_body.results) = N
          /\ posted_body.metadata.total_questions = N
    /\ ("webhook_sent" \in DOMAIN final_payload) <=> ProcessReturned

\* A delivery that succeeded at once: the body went out without the key and
\* the returned payload has it
C13_Witness ==
    /\ ProcessReturned
    /\ posts = 1
    /\ "webhook_sent" \notin DOMAIN posted_body
    /\ final_payload.webhook_sent = TRUE

(***************************************************************************)
(* C14.  An empty question list is rejected by both routes.  Whenever the   *)
(* request body is the empty list, the only step the route takes is the     *)
(* 400 response: process_all_questions is never entered, no run is added    *)
(* to the background tasks, no payload is built and no POST is made.        *)
(***************************************************************************)
C14_EmptyBatchRejected ==
    (handler \in {"/grade", "/grade/sync"} /\ questions = <<>>) =>
        /\ pc \in {"received", "rejected"}
        /\ pc = "rejected" =>
              /\ response.status_code = 400
              /\ response = [status_code |-> 400, detail |-> "No questions provided"]
        /\ pc = "received" => response.status_code = 0
        /\ background_tasks = 0
        /\ posts = 0
        /\ callback_log = <<>>
        /\ final_payload = [results |-> <<>>]

\* POST /grade/sync answered 400 to the empty list
C14_Witness ==
    /\ handler = "/grade/sync"
    /\ questions = <<>>
    /\ pc = "rejected"
    /\ response.status_code = 400
    /\ posts = 0

(***************************************************************************)
(* C15.  Fire-and-forget.  For a non-empty list of N questions sent to      *)
(* POST /grade: the response is a 202 whose body is status "accepted" and   *)
(* questions_received = N, with no results; when it is sent no task has     *)
(* been admitted, no outcome exists and no POST has been made; exactly one  *)
(* run of process_all_questions was added to the background tasks, and the  *)
(* response is not changed by that run.                                     *)
(***************************************************************************)
NothingGradedYet ==
    /\ \A i \in Tasks :
          /\ st[i] = "waiting"
          /\ results[i].msg = "<pending>"
          /\ engine_input[i].question_type = "<none>"
    /\ posts = 0
    /\ final_payload = [results |-> <<>>]

C15_FireAndForget ==
    (handler = "/grade" /\ N > 0) =>
        /\ pc = "received" => (response.status_code = 0 /\ background_tasks = 0)
        /\ pc # "received" =>
              /\ response.status_code = 202
              /\ response.content = [status |-> "accepted", questions_received |-> N]
              /\ background_tasks = 1
        /\ pc = "accepted" => NothingGradedYet
        /\ pc \in {"received", "accepted", "gather", "deliver", "dsleep", "returned"}

\* The 202 has been sent for two questions and nothing has been graded yet
C15_Witness ==
    /\ handler = "/grade"
    /\ N = 2
    /\ pc = "accepted"
    /\ response.status_code = 202
    /\ response.content.questions_received = 2
    /\ background_tasks = 1
    /\ NothingGradedYet

(***************************************************************************)
(* C16.  The metadata matches the outcomes.  A task ends with status        *)
(* "success" exactly when its last attempt succeeded, and with "error"      *)
(* exactly when its attempt MAX_RETRIES failed.  Once the payload is built, *)
(* total_questions = N, successful is the number of emitted outcomes with   *)
(* status "success" (equally: of tasks that ended so), failed the number    *)
(* with status "error", and the two add up to N.                            *)
(***************************************************************************)
CountStatus(seq, status) == Cardinality({k \in 1..Len(seq) : seq[k].status = status})

C16_MetadataMatchesOutcomes ==
    /\ \A i \in Tasks :
          Finished(i) =>
              /\ results[i].val.status = "success" <=> ~AttemptRaised(lastResult[i])
              /\ results[i].val.status = "error" <=>
                    (AttemptRaised(lastResult[i]) /\ attempt[i] = MAX_RETRIES - 1)
    /\ Built =>
          /\ final_payload.metadata.total_questions = N
          /\ final_payload.metadata.successful = CountStatus(Emitted, "success")
          /\ final_payload.metadata.failed = CountStatus(Emitted, "error")
          /\ final_payload.metadata.successful =
                Cardinality({i \in Tasks : results[i].val.status = "success"})
          /\ final_payload.metadata.failed =
                Cardinality({i \in Tasks : results[i].val.status = "error"})
          /\ final_payload.metadata.successful + final_payload.metadata.failed = N

\* The scenario: orders 0, 1, 2; questions 0 and 2 graded 3 of 3, question 1
\* failed every attempt
C16_Witness ==
    /\ ProcessReturned
    /\ N = 3
    /\ [k \in 1..3 |-> Emitted[k].order] = <<0, 1, 2>>
    /\ Emitted[1].status = "success" /\ Emitted[1].points_earned = 3
    /\ Emitted[1].points_possible = 3
    /\ Emitted[2].status = "error"
    /\ Emitted[3].status = "success" /\ Emitted[3].points_earned = 3
    /\ Emitted[3].points_possible = 3
    /\ final_payload.metadata.total_questions = 3
    /\ final_payload.metadata.successful = 2
    /\ final_payload.metadata.failed = 1

(***************************************************************************)
(* C17.  Fan-in barrier.  While any task of the batch is waiting for a      *)
(* slot, in flight or backing off, no POST has been made.  Every POST is    *)
(* made after all N tasks are done and the payload is built: its body has   *)
(* the N collected outcomes in ascending order and the metadata.  POST      *)
(* /grade/sync has responded only if the delivery got a 2xx or used up its  *)
(* MAX_RETRIES attempts.                                                    *)
(***************************************************************************)
SomeTaskUnfinished == \E i \in Tasks : st[i] \in {"waiting", "inflight", "sleeping"}

C17_FanInBarrier ==
    /\ SomeTaskUnfinished => (posts = 0 /\ callback_log = <<>> /\ response.status_code # 200)
    /\ posts > 0 =>
          /\ \A i \in Tasks : st[i] = "done" /\ results[i].msg # "<pending>"
          /\ pc \notin {"received", "accepted", "gather"}
          /\ Len(posted_body.results) = N
          /\ \A i \in Tasks : \E k \in 1..N : posted_body.results[k] = results[i].val
          /\ \A k \in 1..(N - 1) :
                posted_body.results[k].order <= posted_body.results[k + 1].order
          /\ posted_body.metadata.total_questions = N
          /\ posted_body.metadata.successful + posted_body.metadata.failed = N
    /\ (handler = "/grade/sync" /\ response.status_code = 200) =>
          /\ posts > 0
          /\ Got2xx \/ posts = MAX_RETRIES

\* The first POST of a two-question batch is being answered: both tasks are
\* done, the second after retries
C17_Witness ==
    /\ N = 2
    /\ posts = 1
    /\ pc = "dsleep"
    /\ \A i \in Tasks : st[i] = "done"
    /\ results[2].val.status = "error"
    /\ response.status_code # 200

(***************************************************************************)
(* C18.  Termination without a batch-wide deadline.  If every attempt ends, *)
(* every sleep ends and every POST ends, a non-empty batch eventually       *)
(* reaches the state where all N tasks are done, the payload holds the N    *)
(* outcomes, at least one POST has been made and process_all_questions has  *)
(* returned.                                                                *)
(***************************************************************************)
BatchCompleted ==
    /\ N > 0
    /\ \A i \in Tasks : st[i] = "done"
    /\ "results" \in DOMAIN final_payload /\ Len(final_payload.results) = N
    /\ posts >= 1
    /\ pc = "returned"
    /\ "webhook_sent" \in DOMAIN final_payload

C18_BatchTerminates == (N > 0 /\ pc = "gather") ~> BatchCompleted

\* Every question failed every attempt and the run still delivered and
\* returned
C18_Witness ==
    /\ BatchCompleted
    /\ N = 2
    /\ \A k \in 1..N : final_payload.results[k].status = "error"
    /\ final_payload.metadata.failed = N

(***************************************************************************)
(* C19.  Tolerant parsing, as claimed: for every object text and every      *)
(* prose before and after it, parsing the wrapped text gives the same       *)
(* points_earned, points_possible, feedback and correct_answer as parsing   *)
(* the bare object.  Prose that has a "{" before the object, or a "}"       *)
(* after it, moves the span that is decoded, so this is refuted.            *)
(***************************************************************************)
BothParsed == parse_case.bare.msg # "<not called>" /\ parse_case.wrapped.msg # "<not called>"

SameFields(a, b) ==
    /\ a.raised = b.raised
    /\ a.raised => a.msg = b.msg
    /\ ~a.raised =>
          /\ a.val.points_earned = b.val.points_earned
          /\ a.val.points_possible = b.val.points_possible
          /\ a.val.feedback = b.val.feedback
          /\ a.val.correct_answer = b.val.correct_answer

C19_AnyProseSameFields ==
    BothParsed => SameFields(parse_case.wrapped, parse_case.bare)

(***************************************************************************)
(* C19, as the code has it.  When the prose before the object has no "{"    *)
(* and the prose after it has no "}", parsing the wrapped text gives the    *)
(* same points_earned, points_possible, feedback and correct_answer (or     *)
(* the same float() error) as parsing the bare object, and the same         *)
(* question_id and order.                                                   *)
(***************************************************************************)
HasChar(t, ch) == \E i \in 1..Len(t) : t[i].c = ch

C19_BraceFreeProseSameFields ==
    (BothParsed /\ ~HasChar(parse_case.before, "{") /\ ~HasChar(parse_case.after, "}")) =>
        /\ SameFields(parse_case.wrapped, parse_case.bare)
        /\ parse_case.wrapped.val.question_id = parse_case.order
        /\ parse_case.wrapped.val.order = parse_case.order

\* Words before and after the complete object: the wrapped text parses to
\* the object's own fields
C19_Witness ==
    /\ BothParsed
    /\ parse_case.before = <<WS, W, WS>>
    /\ parse_case.after = <<W, W>>
    /\ parse_case.order = 7
    /\ ~parse_case.wrapped.raised
    /\ parse_case.wrapped.val.points_earned = 2
    /\ parse_case.wrapped.val.points_possible = 5
    /\ parse_case.wrapped.val.feedback = "Oikein"
    /\ parse_case.wrapped.val.correct_answer = "F=ma"
    /\ parse_case.wrapped.val.question_id = 7

(***************************************************************************)
(* C20.  No question is skipped because of its type or answer data, as      *)
(* claimed: for every question whose task has finished, at least one input  *)
(* built from that question was sent to the grading capability; and a       *)
(* success whose response gave a points_earned carries that value.  A text  *)
(* question whose answer is null never reaches the capability (line 169     *)
(* raises on every attempt), so this is refuted.                            *)
(***************************************************************************)
SentToEngine(i) == engine_input[i].question_type # "<none>"

C20_EveryQuestionGraded ==
    \A i \in Tasks :
        /\ st[i] = "done" =>
              /\ SentToEngine(i)
              /\ engine_input[i].question_type = questions[i].question_type
        /\ (Finished(i) /\ results[i].val.status = "success") =>
              /\ lastResult[i].kind = "text"
              /\ lastResult[i] = Text(T_full) => results[i].val.points_earned = 2
              /\ lastResult[i] = Text(T_empty) => results[i].val.points_earned = 0

\* What does hold: every question whose answer is not null is sent to the
\* capability, a multiple_choice question with nothing selected included
C20_NonNullAnswersGraded ==
    \A i \in Tasks :
        (st[i] \in {"inflight", "sleeping", "done"}
         /\ ~(questions[i].question_type = "text" /\ questions[i].answer = "<None>")) =>
            /\ SentToEngine(i)
            /\ engine_input[i].question_type = questions[i].question_type
            /\ questions[i].question_type = "multiple_choice" =>
                  engine_input[i].selected = <<>>

\* The failing run: the text question with a null answer ended with an error
\* outcome and nothing was ever sent to the capability for it
C20_NullAnswerNeverSent ==
    /\ N = 1
    /\ questions[1].question_type = "text"
    /\ questions[1].answer = "<None>"
    /\ Finished(1)
    /\ results[1].val.status = "error"
    /\ ~SentToEngine(1)

(***************************************************************************)
(* C21.  Grading backoff.  A task sleeps only after a failed attempt that   *)
(* is not its last: after its k-th failed attempt (k = attempt + 1, from 1  *)
(* to MAX_RETRIES - 1) it sleeps RETRY_DELAY * k, that is 2 then 4, and     *)
(* wakes into attempt k + 1.  A task that is not sleeping has no delay      *)
(* pending; the last attempt and a successful attempt are followed by the   *)
(* return, never by a sleep.                                                *)
(***************************************************************************)
C21_SleepIsLinear ==
    \A i \in Tasks :
        /\ st[i] = "sleeping" =>
              /\ attempt[i] + 1 \in 1..(MAX_RETRIES - 1)
              /\ sleepFor[i] = 2 * (attempt[i] + 1)
              /\ attempt[i] = 0 => sleepFor[i] = 2
              /\ attempt[i] = 1 => sleepFor[i] = 4
              /\ AttemptRaised(lastResult[i])
        /\ st[i] # "sleeping" => sleepFor[i] = 0

C21_SleepOnlyBetweenAttempts ==
    \A i \in Tasks :
        /\ (st[i] = "inflight" /\ st'[i] = "sleeping") =>
              /\ attempt[i] < MAX_RETRIES - 1
              /\ AttemptRaised(lastResult'[i])
        /\ (st[i] = "inflight" /\ attempt[i] = MAX_RETRIES - 1) => st'[i] \in {"inflight", "done"}
        /\ (st[i] = "inflight" /\ st'[i] = "done") => sleepFor'[i] = 0
        /\ (st[i] = "sleeping" /\ st'[i] # "sleeping") =>
              (st'[i] = "inflight" /\ attempt'[i] = attempt[i] + 1)

C21_GradingBackoff == [](C21_SleepIsLinear) /\ [][C21_SleepOnlyBetweenAttempts]_vars

\* One task sleeps 2 after its first failure while the other sleeps 4 after
\* its second
C21_Witness ==
    /\ N = 2
    /\ st[1] = "sleeping" /\ attempt[1] = 0 /\ sleepFor[1] = 2
    /\ st[2] = "sleeping" /\ attempt[2] = 1 /\ sleepFor[2] = 4

(***************************************************************************)
(* C22.  Delivery backoff.  Between two failed POSTs the orchestrator       *)
(* sleeps exactly RETRY_DELAY, whatever the attempt number; it sleeps only  *)
(* after a failed POST that is not the last, and neither the last failed    *)
(* POST nor a successful POST is followed by a sleep: both go straight to   *)
(* the return.                                                              *)
(***************************************************************************)
C22_SleepIsFixed ==
    /\ pc = "dsleep" =>
          /\ dsleepFor = RETRY_DELAY
          /\ dattempt < MAX_RETRIES - 1
          /\ posts = dattempt + 1
          /\ ~Got2xx
          /\ Len(callback_log) = posts
          /\ FailuresBefore(callback_log, posts)
    /\ pc # "dsleep" => dsleepFor = 0

C22_SleepOnlyBetweenPosts ==
    /\ (pc = "deliver" /\ pc' = "dsleep") =>
          /\ callback_log'[Len(callback_log')] \in PostFailures
          /\ dattempt < MAX_RETRIES - 1
    /\ (pc = "deliver" /\ dattempt = MAX_RETRIES - 1) => pc' \in {"deliver", "returned"}
    /\ (pc = "deliver" /\ posts' = posts + 1 /\ callback_log'[Len(callback_log')] = "2xx") =>
          (pc' = "returned" /\ dsleepFor' = 0)
    /\ (pc = "dsleep" /\ pc' # "dsleep") => (pc' = "deliver" /\ dattempt' = dattempt + 1)

C22_DeliveryBackoff == [](C22_SleepIsFixed) /\ [][C22_SleepOnlyBetweenPosts]_vars

\* The second sleep, after two failed POSTs, is still RETRY_DELAY
C22_Witness == pc = "dsleep" /\ dattempt = 1 /\ posts = 2 /\ dsleepFor = 2

(***************************************************************************)
(* C23.  Admission accounting.  A task that has not acquired a slot has     *)
(* done nothing: no input built, no attempt, no engine result, no outcome.  *)
(* The free slots plus the slots held by admitted, unfinished tasks are     *)
(* always MAX_PARALLEL_TASKS, the free slots are never negative, and when   *)
(* all tasks have finished all slots are free.  A slot is given back in the *)
(* step in which its task finishes (with a success dict, an error dict or   *)
(* an exception), one slot per finishing task, and a finished task never    *)
(* changes again.                                                           *)
(***************************************************************************)
SlotHolders == {i \in Tasks : st[i] \in {"inflight", "sleeping"}}

C23_SlotsAccounted ==
    /\ semaphore >= 0
    /\ semaphore + Cardinality(SlotHolders) = MAX_PARALLEL_TASKS
    /\ AllDone => semaphore = MAX_PARALLEL_TASKS
    /\ \A i \in Tasks :
          st[i] = "waiting" =>
              /\ engine_input[i] = NoInput
              /\ attempt[i] = 0
              /\ lastResult[i] = NoResult
              /\ results[i] = Pending

C23_ReleasedOnceOnFinish ==
    LET finishing == {i \in Tasks : st[i] # "done" /\ st'[i] = "done"}
        admitted == {i \in Tasks : st[i] = "waiting" /\ st'[i] # "waiting"}
    IN /\ \A i \in finishing : st[i] = "inflight"
       /\ \A i \in admitted : st'[i] = "inflight"
       /\ \A i \in Tasks : st[i] = "done" => (st'[i] = "done" /\ results'[i] = results[i])
       /\ semaphore' = semaphore + Cardinality(finishing) - Cardinality(admitted)
       /\ Cardinality(finishing) + Cardinality(admitted) <= 1

C23_AdmissionAccounting == [](C23_SlotsAccounted) /\ [][C23_ReleasedOnceOnFinish]_vars

\* A batch larger than the semaphore has finished, one task with a success
\* dict, one with an error dict and one with an exception, and all slots
\* are free
C23_Witness ==
    /\ N > MAX_PARALLEL_TASKS
    /\ AllDone
    /\ semaphore = MAX_PARALLEL_TASKS
    /\ \E i, j, k \in Tasks :
          /\ results[i].raised
          /\ ~results[j].raised /\ results[j].val.status = "success"
          /\ ~results[k].raised /\ results[k].val.status = "error"

(***************************************************************************)
(* C24.  Defensive fallback.  When a task ended with an exception, the     *)
(* payload still has N outcomes, one per task: for the task that raised, an *)
(* outcome with status "error", points_earned 0, points_possible 3 (not the *)
(* question's declared points), the exception's text as error_message and   *)
(* the question's submitted order (its position in the batch when it was    *)
(* submitted without one); for every other task, the dict it returned.      *)
(***************************************************************************)
EndedWithException(i) == results[i].raised

FallbackExpected(i) ==
    LET order == IF questions[i].order = Absent THEN i - 1 ELSE questions[i].order
    IN [question_id |-> order, order |-> order, points_earned |-> 0, points_possible |-> 3,
        feedback |-> "Tekninen virhe arvioinnissa.", correct_answer |-> "",
        status |-> "error", error_message |-> results[i].msg]

C24_DefensiveFallback ==
    (Built /\ \E i \in Tasks : EndedWithException(i)) =>
        /\ Len(Emitted) = N
        /\ \E f \in Bijections(N) :
              \A i \in Tasks :
                  Emitted[f[i]] = IF EndedWithException(i) THEN FallbackExpected(i)
                                  ELSE results[i].val

\* The first of two tasks returned a dict and the second, whose question
\* was submitted second with order 0 and 5 declared points, raised
C24_Witness ==
    /\ pc = "returned"
    /\ N = 2
    /\ ~EndedWithException(1) /\ results[1].val.status = "success"
    /\ EndedWithException(2)
    /\ questions[2].order = 0 /\ questions[2].points_possible = 5
    /\ Emitted[1].error_message = HANDLER_ERROR /\ Emitted[1].points_possible = 3

(***************************************************************************)
(* C25.  Contiguity check.  The warning is recorded exactly when the sorted *)
(* orders of the outcomes are not 0, 1, ..., N-1, which is exactly when the *)
(* orders the tasks read from their questions (0 for a question without     *)
(* one) are not a rearrangement of 0..N-1.  Warned or not, the payload is   *)
(* built with N outcomes in ascending order, each with question_id equal to *)
(* its order, and the orders themselves are left as they were.              *)
(***************************************************************************)
EmittedOrders == [k \in 1..Len(Emitted) |-> Emitted[k].order]

SubmittedContiguous ==
    \E f \in Bijections(N) : \A i \in Tasks : DeclaredOrder(questions[i]) = f[i] - 1

DecodedFields(t) ==
    CASE t = T_full -> [pe |-> 2, pp |-> 5, fb |-> "Oikein", ca |-> "F=ma"]
      [] t = T_empty -> [pe |-> 0, pp |-> 3, fb |-> "", ca |-> ""]
      [] t = T_earned_answer -> [pe |-> 1, pp |-> 3, fb |-> "", ca |-> "F=ma"]
      [] t = T_possible_feedback -> [pe |-> 0, pp |-> 4, fb |-> "Oikein", ca |-> ""]

StatusWellFormed(o) ==
    /\ o.status \in {"success", "error"}
    /\ (o.error_message # None) <=> (o.status = "error")

C27_StatusAndMessage ==
    /\ \A i \in Tasks : (st[i] = "done" /\ ~results[i].raised) => StatusWellFormed(results[i].val)
    /\ Built => \A k \in 1..Len(Emitted) : StatusWellFormed(Emitted[k])
    /\ posts > 0 => \A k \in 1..Len(posted_body.results) : StatusWellFormed(posted_body.results[k])

\* A POSTed payload with a success outcome and the outcome made for an
\* exception, and another with the error dict of a task
C27_Witness ==
    /\ posts > 0
    /\ N = 2
    /\ \E k, l \in 1..2 :
          /\ Emitted[k].status = "success" /\ Emitted[k].error_message = None
          /\ Emitted[l].status = "error"
          /\ Emitted[l].error_message \in {HANDLER_ERROR, "ConnectionError"}

(***************************************************************************)
(* C30.  In the payload, once built, and in every POSTed body, the counts   *)
(* of the metadata add up: successful + failed = total_questions, and       *)
(* total_questions is the length of results (and the size of the batch),    *)
(* also when some tasks ended with an error dict or with an exception.      *)
(***************************************************************************)
CountsAddUp(payload) ==
    /\ payload.metadata.successful + payload.metadata.failed = payload.metadata.total_questions
    /\ payload.metadata.total_questions = Len(payload.results)
    /\ payload.metadata.successful \in 0..Len(payload.results)
    /\ payload.metadata.failed \in 0..Len(payload.results)

C30_CountsAddUp ==
    /\ Built => (CountsAddUp(final_payload) /\ Len(Emitted) = N)
    /\ posts > 0 => CountsAddUp(posted_body)

\* A delivered payload of two outcomes: one success, one made for an
\* exception
C30_Witness ==
    /\ pc = "returned"
    /\ posts > 0
    /\ \E i \in Tasks : results[i].raised
    /\ final_payload.metadata = [total_questions |-> 2, successful |-> 1, failed |-> 1]
    /\ Len(Emitted) = 2

(***************************************************************************)
(* C28.  A task holds its slot from its admission until it has finished,    *)
(* also while it backs off between two attempts: the free slots are         *)
(* MAX_PARALLEL_TASKS minus the number of admitted, unfinished tasks        *)
(* (attempting or backing off), at most MAX_PARALLEL_TASKS tasks are        *)
(* admitted and unfinished, and while that many are, no waiting task can be *)
(* admitted, even when all of them are backing off.  So the tasks admitted  *)
(* so far exceed the finished ones by at most MAX_PARALLEL_TASKS.           *)
(***************************************************************************)
StartedUnfinished == {i \in Tasks : st[i] \in {"inflight", "sleeping"}}
BackingOff == {i \in Tasks : st[i] = "sleeping"}
Admitted == {i \in Tasks : st[i] # "waiting"}
FinishedTasks == {i \in Tasks : st[i] = "done"}

C28_SlotHeldUntilFinalOutcome ==
    /\ Cardinality(StartedUnfinished) <= MAX_PARALLEL_TASKS
    /\ semaphore = MAX_PARALLEL_TASKS - Cardinality(StartedUnfinished)
    /\ Cardinality(Admitted) <= Cardinality(FinishedTasks) + MAX_PARALLEL_TASKS
    /\ Cardinality(StartedUnfinished) = MAX_PARALLEL_TASKS =>
          \A i \in Tasks : ~ENABLED Acquire(i)
    /\ (pc = "gather" /\ Cardinality(StartedUnfinished) < MAX_PARALLEL_TASKS
          /\ \E i \in Tasks : st[i] = "waiting") => \E i \in Tasks : ENABLED Acquire(i)

\* All MAX_PARALLEL_TASKS admitted tasks are backing off, none is attempting,
\* nothing has finished, and the next question is still waiting
C28_Witness ==
    /\ N > MAX_PARALLEL_TASKS
    /\ Cardinality(BackingOff) = MAX_PARALLEL_TASKS
    /\ InFlight = {}
    /\ FinishedTasks = {}
    /\ semaphore = 0
    /\ \E i \in Tasks : st[i] = "waiting" /\ ~ENABLED Acquire(i)

(***************************************************************************)
(* C29.  The gate belongs to the call.  With two calls running at once,     *)
(* each call's semaphore counts that call's own admitted, unfinished tasks  *)
(* and nothing else; each call has at most MAX_PARALLEL_TASKS of them; and  *)
(* the next waiting task of a call can be admitted whenever fewer than      *)
(* MAX_PARALLEL_TASKS tasks of its own call hold a slot, however many slots *)
(* the other call holds.                                                    *)
(***************************************************************************)
HoldersOf(c) == {i \in DOMAIN batch_st[c] : batch_st[c][i] \in {"inflight", "sleeping"}}
WaitingOf(c) == {i \in DOMAIN batch_st[c] : batch_st[c][i] = "waiting"}
InFlightOf(c) == {i \in DOMAIN batch_st[c] : batch_st[c][i] = "inflight"}

C29_GatePerBatch ==
    \A c \in Calls :
        /\ Cardinality(InFlightOf(c)) <= MAX_PARALLEL_TASKS
        /\ Cardinality(HoldersOf(c)) <= MAX_PARALLEL_TASKS
        /\ gates[c] = MAX_PARALLEL_TASKS - Cardinality(HoldersOf(c))
        /\ (WaitingOf(c) # {} /\ Cardinality(HoldersOf(c)) < MAX_PARALLEL_TASKS) =>
              \E i \in WaitingOf(c) : ENABLED CallAcquire(c, i)
        /\ (WaitingOf(c) # {} /\ Cardinality(HoldersOf(c)) = MAX_PARALLEL_TASKS) =>
              \A i \in WaitingOf(c) : ~ENABLED CallAcquire(c, i)

\* Call A has all its slots taken and a task waiting; call B, none of whose
\* tasks has finished, has attempts in flight all the same, so that more
\* than MAX_PARALLEL_TASKS attempts are in flight in the process
C29_Witness ==
    /\ Cardinality(InFlightOf("A")) = MAX_PARALLEL_TASKS
    /\ WaitingOf("A") # {}
    /\ \A i \in DOMAIN batch_st["A"] : batch_st["A"][i] # "done"
    /\ \A i \in DOMAIN batch_st["B"] : batch_st["B"][i] # "done"
    /\ Cardinality(InFlightOf("B")) = MAX_PARALLEL_TASKS
    /\ WaitingOf("B") # {}
    /\ gates = [c \in Calls |-> 0]

(***************************************************************************)
(* C31.  As claimed: once an ExamRequest has status "completed", no step    *)
(* changes its status.                                                      *)
(***************************************************************************)
CompletedStays ==
    \A r \in DOMAIN exam_requests :
        exam_requests[r].status = "completed" => exam_requests'[r].status = "completed"

C31_CompletedIsFinal == [][CompletedStays]_vars

\* The request is recorded as failed by its sender thread although
\* exam_webhook had completed it: the row still points to the exam that was
\* created for it
C31_CompletedOverwrittenBySender ==
    \E r \in DOMAIN exam_requests :
        /\ exam_requests[r].status = "error"
        /\ exam_requests[r].error_message = SENDER_ERROR
        /\ exam_requests[r].exam # 0
        /\ exams[exam_requests[r].exam].is_active
        /\ senders[r].pc = "done"

(***************************************************************************)
(* C32.  With the views called one at a time, at most one ExamRequest has   *)
(* status "pending" or "processing", and it is the request created last:    *)
(* request_exam marks every earlier open request as "error" before it      *)
(* creates the new one.                                                     *)
(***************************************************************************)
OpenRequests ==
    {r \in DOMAIN exam_requests : exam_requests[r].status \in {"pending", "processing"}}

C32_AtMostOneOpenRequest ==
    /\ Cardinality(OpenRequests) <= 1
    /\ OpenRequests \subseteq {Len(exam_requests)}

\* A second request_exam found the first request still open and cancelled it
C32_Witness ==
    /\ Len(exam_requests) = 2
    /\ exam_requests[1].status = "error"
    /\ exam_requests[1].error_message = "Cancelled"
    /\ exam_requests[2].status = "processing"
    /\ view.pc = "idle"

(***************************************************************************)
(* C33.  With webhook, exam_webhook and end_exam called one at a time, at   *)
(* most one Exam has is_active = TRUE: each call that creates an exam       *)
(* deactivates every active exam first, and end_exam deactivates the exam   *)
(* it ends.                                                                 *)
(***************************************************************************)
ActiveExams == {e \in DOMAIN exams : exams[e].is_active}

C33_AtMostOneActiveExam ==
    /\ Cardinality(ActiveExams) <= 1
    /\ ActiveExams \subseteq {Len(exams)}

\* A second exam was created while the first one was active: the first one is
\* no longer active, the second one is
C33_Witness ==
    /\ Len(exams) = 2
    /\ ~exams[1].is_active
    /\ exams[2].is_active
    /\ submissions = <<>>
    /\ view.pc = "idle"

(***************************************************************************)
(* C34.  grading_webhook replaces, it does not accumulate.  After a call    *)
(* that answered with success, the submission it graded (the latest one at  *)
(* the time of the call) is graded, has exactly one QuestionGrade per       *)
(* posted entry and nothing else, and its two totals are the sums over the  *)
(* posted entries; this stays so until the next call, so the same list      *)
(* posted again leaves the same grades and totals.  No step changes a       *)
(* submission other than the latest one.                                    *)
(***************************************************************************)
DistinctOrders(grades_data) ==
    \A a, b \in 1..Len(grades_data) :
        a # b => GradeRow(grades_data[a]).order # GradeRow(grades_data[b]).order

GradedAsPosted ==
    grading_response.status_code = 200 =>
        LET graded == submissions[grading_response.submission_id]
            posted == grading_response.posted
        IN  /\ DistinctOrders(posted)
            /\ graded.is_graded
            /\ Len(graded.grades) = Len(posted)
            /\ \A k \in 1..Len(posted) : graded.grades[k] = GradeRow(posted[k])
            /\ graded.total_points_earned = TotalEarned(posted)
            /\ graded.total_points_possible = TotalPossible(posted)

OtherSubmissionsUntouched ==
    \A s \in 1..(Len(submissions) - 1) : submissions'[s] = submissions[s]

C34_GradesReplaced == [](GradedAsPosted) /\ [][OtherSubmissionsUntouched]_vars

\* The second submission had grades of an earlier call; a call with a list of
\* two entries removed them and stored the two new ones, and the first
\* submission still has the grades it got before
C34_Witness ==
    /\ grading_response.status_code = 200
    /\ grading_response.deleted > 0
    /\ grading_response.submission_id = 2
    /\ Len(grading_response.posted) = 2
    /\ Len(submissions[2].grades) = 2
    /\ submissions[1].is_graded
    /\ Len(submissions[1].grades) = 1

====
